---------------------------- MODULE Spec2Model ----------------------------
(***************************************************************************)
(* Jukebox: the playback state machine of the Flask server                 *)
(* (src/backend/app.py) and of the desktop player (src/jukebox_gui.py),    *)
(* the search/download workers and the history list.                       *)
(*                                                                         *)
(* Locators, names and identifiers are strings; "" stands for every falsy  *)
(* Python value of such a field (None or the empty string).  Python        *)
(* indices are 0-based, TLA+ sequences 1-based: playlist[i] of the source  *)
(* is playlist[i + 1] here.                                                *)
(***************************************************************************)
EXTENDS Integers, Sequences, FiniteSets, TLC

VARIABLES
    \* ---- src/backend/app.py (module-level state) ----
    player,               \* TRUE iff vlc media_player_new() returned a player
    current_playlist,     \* list of Track, loaded once, never mutated by app.py
    current_track_index,
    is_playing,
    current_media_type,
    current_radio_info,
    vlc_state,            \* player.get_state()
    vlc_media,            \* locator of the media set in the player, "" if none
    last,                 \* the last request served and its response
    webradio_stations,    \* the web-radio list of webradios.json
    current_volume,       \* the stored volume
    vlc_volume,           \* the engine's volume (audio_set_volume)
    \* ---- src/jukebox_gui.py (class Jukebox) ----
    playlist,             \* self.playlist
    current_idx,          \* self.current_idx
    self_is_playing,      \* self.is_playing
    history,              \* self.history
    favorites,            \* self.favorites
    current_track_info,   \* self.current_track_info: <<track>>, or <<>> for None
    gvlc_state,           \* self.player.get_state()
    gvlc_media,           \* locator of the media set in self.player, "" if none
    events,               \* engine events posted to the Qt loop, not yet handled
    timers,               \* pending QTimer.singleShot(.., self.play_next)
    glast,                \* the last slot run on the control thread
    probes,               \* the FileProbeWorker objects created so far
    probe_workers,        \* self.probe_workers: the probes it lists, by number
    cover,                \* what self.cover_lbl shows: "default" or a thumbnail locator
    cover_worker,         \* self.cover_worker: a worker, or 0 for None
    covers,               \* the CoverDownloadWorker objects created so far
    cache,                \* COVER_DIR: the file kept for each thumbnail locator
    is_searching,         \* self.is_searching
    yt_search_worker,     \* self.yt_search_worker: a worker, or 0 for None
    context_download_worker,
    workers,              \* the YoutubeSearchWorker objects created so far
    mailbox,              \* worker signals queued for the control thread, in order
    \* ---- which program runs, and how many slot calls were made ----
    program,
    calls

srv_vars == <<player, current_playlist, current_track_index, is_playing,
              current_media_type, current_radio_info, vlc_state, vlc_media, last,
              webradio_stations, current_volume, vlc_volume>>

gui_vars == <<playlist, current_idx, self_is_playing, history, favorites,
              current_track_info, gvlc_state, gvlc_media, events, timers, glast,
              probes, probe_workers, cover, cover_worker, covers, cache>>

search_vars == <<is_searching, yt_search_worker, context_download_worker, workers, mailbox>>

vars == <<srv_vars, gui_vars, search_vars, program, calls>>

----------------------------------------------------------------------------
\* Bounds of the model
MaxPL == 2          \* longest playlist loaded at startup
MaxTimers == 1      \* most play_next timers pending at once
MaxEvents == 1      \* most engine events waiting in the Qt loop
MaxCalls == 3       \* most direct calls of the history slot in one run
MaxWorkers == 2     \* most search/download workers created in one run
MaxResults == 1     \* most entries one search delivers
MaxLiveWorkers == 1 \* the same, in the runs checked for liveness
MaxCovers == 1      \* most cover downloads started in one run with two thumbnails
MaxFetches == 2     \* most cover downloads started in one run with one thumbnail
MaxProbes == 2      \* most duration probes created in one run

\* Program constants
MAX_HISTORY_SIZE == 50
DEFAULT_VOLUME == 80
MAX_VOLUME == 200

----------------------------------------------------------------------------
\* Values

NONE == ""
Truthy(v) == v # NONE

NoRadio == [name |-> NONE, url_stream |-> NONE]
NoStatus == [media_type |-> NONE, current_track_index |-> -1, is_playing |-> FALSE]

Stream(k) == "http://stream/" \o ToString(k)
Page(k) == "https://youtube.com/watch?v=" \o ToString(k)

\* Track.__init__(url, title, thumbnail_url, duration_sec, is_local, webpage_url):
\* the fields the playback, history and download logic read; duration_sec is
\* 0 (unknown) and thumbnail_url is None unless given
Track(url, is_local, webpage_url) ==
    [url |-> url, is_local |-> is_local, duration_sec |-> 0, thumbnail_url |-> NONE,
     webpage_url |-> IF is_local /\ ~Truthy(webpage_url) THEN url ELSE webpage_url]

\* Track(t.url, t.title, t.thumbnail_url, t.duration_sec, t.is_local, t.webpage_url)
TrackCopy(t) ==
    [Track(t.url, t.is_local, t.webpage_url) EXCEPT !.duration_sec = t.duration_sec,
                                                    !.thumbnail_url = t.thumbnail_url]

\* The playlists load_json can return: n tracks, those at positions `bad`
\* without a locator (load_json keeps an item that has a title or a url).
LoadedPlaylist(n, bad) ==
    [k \in 1..n |-> IF k \in bad THEN Track(NONE, FALSE, Page(k))
                     ELSE Track(Stream(k), FALSE, Page(k))]

Playlists == { LoadedPlaylist(n, bad) : n \in 0..MaxPL, bad \in SUBSET (1..MaxPL) }

\* the thumbnail locators that start with "http"; their cache files are
\* COVER_DIR / md5(locator).jpg, one per locator
Thumbs == {"http://img/1", "http://img/2"}

\* COVER_DIR without a file
NoCovers == [u \in Thumbs |-> "absent"]

VlcStates == {"NothingSpecial", "Opening", "Playing", "Paused", "Stopped", "Ended", "Error"}

\* What the engine answers to media_new() followed by play():
\*   "nomedia"  media_new returned None
\*   "playfail" play() returned -1
\*   "opening"  play() returned 0, the player is still opening the media
\*   "playing"  play() returned 0, the player already reports Playing
EngOutcomes == {"nomedia", "playfail", "opening", "playing"}

\* the stations used when webradios.json is missing
DEFAULT_WEBRADIOS ==
    << [name |-> "Radio Deejay (MP3)", url_stream |-> "http://shoutcast.unitedradio.it/RadioDeejay"],
       [name |-> "Rai Radio 1 (MP3)", url_stream |-> "http://icestreaming.rai.it/1.mp3"] >>

Radios == { [name |-> "radio1", url_stream |-> "http://radio1"],
            [name |-> "radio2", url_stream |-> "http://radio2"],
            [name |-> NONE, url_stream |-> "http://radio1"] }

----------------------------------------------------------------------------
\* src/backend/app.py: the session as one record, so that a handler is an
\* operator from session to session.

Srv == [idx |-> current_track_index, playing |-> is_playing,
        mode |-> current_media_type, radio |-> current_radio_info,
        vstate |-> vlc_state, vmedia |-> vlc_media, ret |-> TRUE,
        volume |-> current_volume, vvolume |-> vlc_volume]

SrvApply(s) ==
    /\ current_track_index' = s.idx
    /\ is_playing' = s.playing
    /\ current_media_type' = s.mode
    /\ current_radio_info' = s.radio
    /\ vlc_state' = s.vstate
    /\ vlc_media' = s.vmedia
    /\ current_volume' = s.volume
    /\ vlc_volume' = s.vvolume

\* a variant of VlcStop that leaves the engine as it is
VlcStopIgnored(s) == s

\* player.stop()
VlcStop(s) == [s EXCEPT !.vstate = "Stopped"]

\* player.is_playing()
VlcIsPlaying(s) == s.vstate = "Playing"

\* player.set_media(media); player.play() with the engine answering eng
VlcPlayNew(s, locator, eng) ==
    IF eng = "playfail"
    THEN [s EXCEPT !.vmedia = locator]
    ELSE [s EXCEPT !.vmedia = locator,
                   !.vstate = IF eng = "playing" THEN "Playing" ELSE "Opening"]

\* a variant of StatusState that reports without reconciling
StatusStateUnreconciled(s) == s

\* _get_player_status(): the session after the reconciliation, and the output
StatusState(s) ==
    IF player /\ s.playing /\ ~VlcIsPlaying(s) THEN [s EXCEPT !.playing = FALSE] ELSE s

StatusOut(s) ==
    LET r == StatusState(s) IN
    IF r.mode = "webradio" /\ r.radio # NoRadio
    THEN [media_type |-> "webradio", current_track_index |-> -1, is_playing |-> r.playing]
    ELSE IF r.mode = "playlist" /\ 0 <= r.idx /\ r.idx < Len(current_playlist)
    THEN [media_type |-> "playlist", current_track_index |-> r.idx, is_playing |-> r.playing]
    ELSE [media_type |-> r.mode, current_track_index |-> -1, is_playing |-> r.playing]

\* a variant of Started that forgets the index
StartedKeepingIndex(s, index) == [s EXCEPT !.playing = TRUE, !.ret = TRUE]

\* _play_track_at_index, play() returned 0: the index, the flag, the result
Started(s, index) == [s EXCEPT !.idx = index, !.playing = TRUE, !.ret = TRUE]

\* _play_track_at_index(index)
PlayTrackAtIndex(s, index, eng) ==
    IF ~player
    THEN [s EXCEPT !.playing = FALSE, !.ret = FALSE]
    ELSE
    LET s1 == [s EXCEPT !.mode = "playlist", !.radio = NoRadio] IN
    IF ~(0 <= index /\ index < Len(current_playlist))
    THEN [VlcStop(s1) EXCEPT !.idx = -1, !.playing = FALSE, !.ret = FALSE]
    ELSE
    LET track_to_play == current_playlist[index + 1]
        busy == VlcIsPlaying(s1) \/ s1.vstate = "Paused"
    IN
    IF busy /\ s1.idx = index /\ s1.vstate = "Paused" /\ s1.mode = "playlist"
    THEN IF eng # "playfail"
         THEN [s1 EXCEPT !.vstate = "Playing", !.playing = TRUE, !.ret = TRUE]
         ELSE [s1 EXCEPT !.playing = FALSE, !.ret = FALSE]
    ELSE
    LET s2 == IF busy THEN VlcStop(s1) ELSE s1 IN
    IF ~Truthy(track_to_play.url)
    THEN [s2 EXCEPT !.playing = FALSE, !.ret = FALSE]
    ELSE IF eng = "nomedia"
    THEN [s2 EXCEPT !.playing = FALSE, !.ret = FALSE]
    ELSE IF eng = "playfail"
    THEN [VlcPlayNew(s2, track_to_play.url, eng) EXCEPT !.playing = FALSE, !.ret = FALSE]
    ELSE Started(VlcPlayNew(s2, track_to_play.url, eng), index)

\* a variant of NextNotInPlaylist that also resets the mode
NextNotInPlaylistResetting(s) ==
    [(IF player THEN VlcStop(s) ELSE s) EXCEPT !.playing = FALSE, !.mode = "none", !.ret = FALSE]

\* a variant of NextNotInPlaylist that leaves the engine running
NextNotInPlaylistNoStop(s) == [s EXCEPT !.playing = FALSE, !.ret = FALSE]

\* _play_next_track, current_media_type is not "playlist"
NextNotInPlaylist(s) ==
    [(IF player THEN VlcStop(s) ELSE s) EXCEPT !.playing = FALSE, !.ret = FALSE]

\* a variant of NextIndex that does not loop
NextIndexUnwrapped(idx, len) == idx + 1

\* _play_next_track: the index after idx, looping to the first track
NextIndex(idx, len) == IF idx + 1 >= len THEN 0 ELSE idx + 1

\* _play_next_track()
PlayNextTrack(s, eng) ==
    IF s.mode # "playlist"
    THEN NextNotInPlaylist(s)
    ELSE IF current_playlist = <<>>
    THEN [s EXCEPT !.playing = FALSE, !.ret = FALSE]
    ELSE PlayTrackAtIndex(s, NextIndex(s.idx, Len(current_playlist)), eng)

\* _play_previous_track()
PlayPreviousTrack(s, eng) ==
    IF s.mode # "playlist"
    THEN [(IF player THEN VlcStop(s) ELSE s) EXCEPT !.playing = FALSE, !.ret = FALSE]
    ELSE IF current_playlist = <<>>
    THEN [s EXCEPT !.playing = FALSE, !.ret = FALSE]
    ELSE
    LET n == s.idx - 1
        new_index == IF n < 0 THEN Len(current_playlist) - 1 ELSE n
    IN IF new_index = -1 THEN [s EXCEPT !.ret = FALSE]
       ELSE PlayTrackAtIndex(s, new_index, eng)

\* a variant of HandleEndReachedEvent that advances in every mode
HandleEndReachedAdvancing(s, eng) == PlayNextTrack(s, eng)

\* _handle_end_reached_event(event)
HandleEndReachedEvent(s, eng) ==
    IF s.mode = "webradio" THEN s
    ELSE IF s.mode = "playlist" THEN PlayNextTrack(s, eng)
    ELSE s

\* a variant of AddWebradioBody that keeps the playlist index
AddWebradioKeepingIndex(s, r, eng) ==
    LET s1 == IF VlcIsPlaying(s) \/ s.vstate = "Paused" THEN VlcStop(s) ELSE s IN
    IF eng = "nomedia"
    THEN [s1 EXCEPT !.ret = FALSE]
    ELSE IF eng = "playfail"
    THEN [VlcPlayNew(s1, r.url_stream, eng) EXCEPT
              !.playing = FALSE, !.mode = "none", !.radio = NoRadio, !.ret = FALSE]
    ELSE [VlcPlayNew(s1, r.url_stream, eng) EXCEPT
              !.playing = TRUE, !.mode = "webradio", !.radio = r, !.ret = TRUE]

\* add_webradio(): the session after a well-formed request
AddWebradioBody(s, r, eng) ==
    LET s1 == IF VlcIsPlaying(s) \/ s.vstate = "Paused" THEN VlcStop(s) ELSE s IN
    IF eng = "nomedia"
    THEN [s1 EXCEPT !.ret = FALSE]
    ELSE IF eng = "playfail"
    THEN [VlcPlayNew(s1, r.url_stream, eng) EXCEPT
              !.playing = FALSE, !.mode = "none", !.radio = NoRadio, !.ret = FALSE]
    ELSE [VlcPlayNew(s1, r.url_stream, eng) EXCEPT
              !.playing = TRUE, !.idx = -1, !.mode = "webradio", !.radio = r, !.ret = TRUE]

\* GET /api/webradios: the list sent
GetWebradios == webradio_stations

\* A handler's response: the request, what the operation returned, the status sent
Served(op, arg, s, withStatus) ==
    /\ SrvApply(IF withStatus THEN StatusState(s) ELSE s)
    /\ last' = [op |-> op, arg |-> arg, ret |-> s.ret, pre_idx |-> current_track_index,
                status |-> IF withStatus THEN StatusOut(s) ELSE NoStatus]
    /\ program = "server"
    /\ UNCHANGED <<player, current_playlist, webradio_stations, gui_vars, search_vars,
                   program, calls>>

----------------------------------------------------------------------------
\* Requests (src/backend/app.py routes) and engine events

\* POST /api/player/play {"track_index": i}
PlayerPlayIndex(i) ==
    \E eng \in EngOutcomes :
        IF 0 <= i /\ i < Len(current_playlist)
        THEN Served("play_at", i, PlayTrackAtIndex(Srv, i, eng), TRUE)
        ELSE Served("play_at", i, [Srv EXCEPT !.ret = FALSE], FALSE)

\* POST /api/player/play without track_index
PlayerPlayResume ==
    /\ player
    /\ \E eng \in EngOutcomes :
        LET s == Srv IN
        IF s.vstate = "Paused"
        THEN Served("play", -1,
                    [s EXCEPT !.vstate = IF eng = "playfail" THEN @ ELSE "Playing",
                              !.playing = TRUE], TRUE)
        ELSE IF s.vstate \in {"Stopped", "Ended", "NothingSpecial"}
        THEN IF 0 <= s.idx /\ s.idx < Len(current_playlist)
             THEN Served("play", -1, PlayTrackAtIndex(s, s.idx, eng), TRUE)
             ELSE IF current_playlist # <<>>
             THEN Served("play", -1, PlayTrackAtIndex(s, 0, eng), TRUE)
             ELSE Served("play", -1, s, TRUE)
        ELSE Served("play", -1, s, TRUE)

\* POST /api/player/pause; can_pause is the engine's answer for the media
PlayerPause ==
    \E can_pause \in BOOLEAN :
        LET s == Srv IN
        IF player /\ can_pause /\ Truthy(s.vmedia)
        THEN Served("pause", -1,
                    [s EXCEPT !.vstate = IF @ = "Playing" THEN "Paused"
                                         ELSE IF @ = "Paused" THEN "Playing" ELSE @,
                              !.playing = FALSE], TRUE)
        ELSE Served("pause", -1, s, TRUE)

\* POST /api/player/next
PlayerNext ==
    \E eng \in EngOutcomes : Served("next", -1, PlayNextTrack(Srv, eng), TRUE)

\* POST /api/player/previous
PlayerPrevious ==
    \E eng \in EngOutcomes : Served("previous", -1, PlayPreviousTrack(Srv, eng), TRUE)

\* GET /api/player/status
PlayerStatus == Served("status", -1, Srv, TRUE)

\* POST /api/webradios/add
AddWebradio ==
    \E r \in Radios, eng \in EngOutcomes :
        IF ~Truthy(r.name) \/ ~Truthy(r.url_stream) \/ ~player
        THEN Served("add_webradio", -1, [Srv EXCEPT !.ret = FALSE], FALSE)
        ELSE LET s == AddWebradioBody(Srv, r, eng) IN
             Served("add_webradio", -1, s, s.ret)

\* The "volume" values of the request body: JSON integers, JSON numbers with
\* a fraction (in tenths), strings (val is the integer the string spells, or
\* -1000 when it spells none), null, and the field missing
VolumeInputs ==
    { [kind |-> "int", val |-> v] : v \in {-1, 0, 50, MAX_VOLUME, MAX_VOLUME + 1} }
    \cup { [kind |-> "float", val |-> t] : t \in {-5, 505, 10 * MAX_VOLUME + 5, 10 * MAX_VOLUME + 15} }
    \cup { [kind |-> "str", val |-> v] : v \in {50, -1000} }
    \cup { [kind |-> "null", val |-> 0], [kind |-> "missing", val |-> 0] }

\* int(data['volume']): the integer for a JSON integer, the number truncated
\* towards zero for a JSON number with a fraction, the integer a string
\* spells; -1000 stands for ValueError (a string that spells no integer) and
\* for TypeError (null)
IntOf(v) ==
    IF v.kind = "int" THEN v.val
    ELSE IF v.kind = "float"
    THEN IF v.val >= 0 THEN v.val \div 10 ELSE -((-v.val) \div 10)
    ELSE IF v.kind = "str" THEN v.val
    ELSE -1000

\* POST /api/player/volume
PlayerVolume(v) ==
    LET s == Srv
        vol == IntOf(v)
    IN IF v.kind # "missing" /\ 0 <= vol /\ vol <= MAX_VOLUME
       THEN Served("volume", vol,
                   [s EXCEPT !.volume = vol, !.vvolume = IF player THEN vol ELSE @], TRUE)
       ELSE Served("volume", -1, [s EXCEPT !.ret = FALSE], FALSE)

\* The engine opens the media, or fails on it (no error callback is attached)
EngineStep ==
    /\ \/ vlc_state = "Opening" /\ vlc_state' \in {"Playing", "Error"}
       \/ vlc_state = "Playing" /\ vlc_state' = "Error"
    /\ last' = [op |-> "engine", arg |-> -1, ret |-> TRUE, pre_idx |-> current_track_index,
                status |-> NoStatus]
    /\ program = "server"
    /\ UNCHANGED <<player, current_playlist, current_track_index, is_playing,
                   current_media_type, current_radio_info, vlc_media, webradio_stations,
                   current_volume, vlc_volume,
                   gui_vars, search_vars, program, calls>>

\* The media ends: the engine goes to Ended and calls _handle_end_reached_event
EndReached ==
    /\ vlc_state = "Playing"
    /\ \E eng \in EngOutcomes :
        LET s == HandleEndReachedEvent([Srv EXCEPT !.vstate = "Ended"], eng) IN
        Served("end_reached", -1, s, FALSE)

SrvIdle ==
    /\ current_track_index = -1
    /\ is_playing = FALSE
    /\ current_media_type = "none"
    /\ current_radio_info = NoRadio
    /\ vlc_state = "NothingSpecial"
    /\ vlc_media = NONE
    /\ webradio_stations = DEFAULT_WEBRADIOS
    /\ current_volume = DEFAULT_VOLUME
    /\ vlc_volume = DEFAULT_VOLUME
    /\ last = [op |-> "init", arg |-> -1, ret |-> TRUE, pre_idx |-> -1, status |-> NoStatus]

\* app.py, module level: the player, the loaded playlist, the session variables
SrvInit ==
    /\ player \in BOOLEAN
    /\ current_playlist \in Playlists
    /\ SrvIdle

----------------------------------------------------------------------------
\* src/jukebox_gui.py: the desktop player.  The slots run on the Qt control
\* thread; a signal emitted on that thread calls its slot at once (direct
\* connection), so play_track_signal.emit(i) is _play_current_index(i).

Gui == [playlist |-> playlist, idx |-> current_idx, playing |-> self_is_playing,
        history |-> history, fav |-> favorites, info |-> current_track_info,
        vstate |-> gvlc_state, vmedia |-> gvlc_media, timers |-> timers,
        probes |-> probes, probe_workers |-> probe_workers,
        cover |-> cover, cover_worker |-> cover_worker, covers |-> covers, cache |-> cache]

GuiApply(g) ==
    /\ playlist' = g.playlist
    /\ current_idx' = g.idx
    /\ self_is_playing' = g.playing
    /\ history' = g.history
    /\ favorites' = g.fav
    /\ current_track_info' = g.info
    /\ gvlc_state' = g.vstate
    /\ gvlc_media' = g.vmedia
    /\ timers' = g.timers
    /\ probes' = g.probes
    /\ probe_workers' = g.probe_workers
    /\ cover' = g.cover
    /\ cover_worker' = g.cover_worker
    /\ covers' = g.covers
    /\ cache' = g.cache

\* identifier of a track: track.webpage_url or track.url
Identifier(t) == IF Truthy(t.webpage_url) THEN t.webpage_url ELSE t.url

\* a variant of WithoutIdentifier that removes nothing
WithEveryEntry(h, id) == h

\* the list without the entries that share the identifier
WithoutIdentifier(h, id) == SelectSeq(h, LAMBDA x : Identifier(x) # id)

\* a variant of Truncated that cuts nothing
Untruncated(h) == h

\* the history cut to its most recent MAX_HISTORY_SIZE entries
Truncated(h) == IF Len(h) > MAX_HISTORY_SIZE THEN SubSeq(h, 1, MAX_HISTORY_SIZE) ELSE h

\* Jukebox._add_to_history(track)
AddToHistory(h, track) ==
    LET identifier_to_add == Identifier(track) IN
    IF ~Truthy(identifier_to_add) THEN h
    ELSE LET new_history == WithoutIdentifier(h, identifier_to_add)
             history_track == TrackCopy(track)
         IN Truncated(<<history_track>> \o new_history)

\* Jukebox_DEACTIVATED._add_to_history_nogui(track)
AddToHistoryNogui(h, track) ==
    LET identifier_to_add == Identifier(track) IN
    IF ~Truthy(identifier_to_add) THEN h
    ELSE Truncated(<<track>> \o WithoutIdentifier(h, identifier_to_add))

\* Jukebox._clear_media_info()
ClearMediaInfo(g) == [g EXCEPT !.info = <<>>, !.cover = "default"]

\* Jukebox._handle_playback_error(msg): stop, clear the display, play_next in 100 ms
HandlePlaybackError(g) == [ClearMediaInfo(VlcStop(g)) EXCEPT !.timers = @ + 1]

\* a variant of SetCover that never looks at the cache
SetCoverUncached(g, thumbnail_url) ==
    LET g1 == IF g.cover_worker # 0 /\ g.covers[g.cover_worker].pc # "ended"
              THEN [g EXCEPT !.covers[g.cover_worker].cancelled = TRUE] ELSE g
        g2 == [g1 EXCEPT !.cover = "default"]
    IN IF thumbnail_url \notin Thumbs THEN g2
       ELSE [g2 EXCEPT !.covers = Append(@, [url |-> thumbnail_url, pc |-> "start",
                                             cancelled |-> FALSE]),
                       !.cover_worker = Len(g2.covers) + 1]

\* a variant of SetCover that lets the running cover worker go on
SetCoverNoCancel(g, thumbnail_url) ==
    LET g2 == [g EXCEPT !.cover = "default"]
    IN IF thumbnail_url \notin Thumbs THEN g2
       ELSE IF g2.cache[thumbnail_url] = "valid" THEN [g2 EXCEPT !.cover = thumbnail_url]
       ELSE [g2 EXCEPT !.cache[thumbnail_url] = "absent",
                       !.covers = Append(@, [url |-> thumbnail_url, pc |-> "start",
                                             cancelled |-> FALSE]),
                       !.cover_worker = Len(g2.covers) + 1]

\* Jukebox._set_cover(thumbnail_url): cancel the running cover worker, show the
\* default cover, then show the cached image or start a CoverDownloadWorker.
\* A cache file that is not a valid image (corrupt or still being written:
\* QPixmap is null) is deleted first.
SetCover(g, thumbnail_url) ==
    LET g1 == IF g.cover_worker # 0 /\ g.covers[g.cover_worker].pc # "ended"
              THEN [g EXCEPT !.covers[g.cover_worker].cancelled = TRUE] ELSE g
        g2 == [g1 EXCEPT !.cover = "default"]
    IN IF thumbnail_url \notin Thumbs THEN g2
       ELSE IF g2.cache[thumbnail_url] = "valid" THEN [g2 EXCEPT !.cover = thumbnail_url]
       ELSE [g2 EXCEPT !.cache[thumbnail_url] = "absent",
                       !.covers = Append(@, [url |-> thumbnail_url, pc |-> "start",
                                             cancelled |-> FALSE]),
                       !.cover_worker = Len(g2.covers) + 1]

\* Jukebox._play_current_index(index)
PlayCurrentIndex(g, index, eng) ==
    IF ~(0 <= index /\ index < Len(g.playlist))
    THEN ClearMediaInfo([VlcStop(g) EXCEPT !.idx = -1])
    ELSE
    LET track_to_play == g.playlist[index + 1] IN
    IF index = g.idx /\ g.vstate = "Paused"
    THEN [g EXCEPT !.vstate = IF eng = "playfail" THEN @ ELSE "Playing", !.playing = TRUE]
    ELSE
    LET g1 == IF VlcIsPlaying(g) \/ g.vstate = "Paused" THEN VlcStop(g) ELSE g
        g2 == [g1 EXCEPT !.idx = index, !.info = <<track_to_play>>]
    IN
    IF ~Truthy(track_to_play.url) \/ eng = "nomedia"
    THEN HandlePlaybackError(g2)
    ELSE IF eng = "playfail"
    THEN HandlePlaybackError(VlcPlayNew(g2, track_to_play.url, eng))
    ELSE [SetCover(VlcPlayNew(g2, track_to_play.url, eng), track_to_play.thumbnail_url)
              EXCEPT !.history = AddToHistory(@, track_to_play)]

\* a variant of PlayNext that loops to the first track after the last
PlayNextLooping(g, eng) ==
    IF g.playlist = <<>> THEN g
    ELSE LET next_idx == IF g.idx = -1 THEN 0 ELSE g.idx + 1 IN
         PlayCurrentIndex(g, IF next_idx >= Len(g.playlist) THEN 0 ELSE next_idx, eng)

\* Jukebox.play_next()
PlayNext(g, eng) ==
    IF g.playlist = <<>> THEN g
    ELSE
    LET next_idx == IF g.idx = -1 THEN 0 ELSE g.idx + 1 IN
    IF next_idx >= Len(g.playlist)
    THEN ClearMediaInfo([VlcStop(g) EXCEPT !.idx = -1])
    ELSE PlayCurrentIndex(g, next_idx, eng)

\* a variant of PlayPrevious without the guard on the first track
PlayPreviousUnguarded(g, eng) ==
    IF g.playlist = <<>> THEN g ELSE PlayCurrentIndex(g, g.idx - 1, eng)

\* Jukebox.play_previous()
PlayPrevious(g, eng) ==
    IF g.playlist = <<>> THEN g
    ELSE IF g.idx <= 0 THEN PlayCurrentIndex(g, 0, eng)
    ELSE PlayCurrentIndex(g, g.idx - 1, eng)

\* Jukebox.toggle_play()
TogglePlay(g, eng) ==
    IF g.vstate = "Playing" THEN [g EXCEPT !.vstate = "Paused"]
    ELSE IF g.vstate = "Paused" THEN [g EXCEPT !.vstate = "Playing"]
    ELSE IF g.vstate \in {"Stopped", "Ended", "Error", "NothingSpecial"}
    THEN IF 0 <= g.idx /\ g.idx < Len(g.playlist) THEN PlayCurrentIndex(g, g.idx, eng)
         ELSE IF g.playlist # <<>> THEN PlayCurrentIndex(g, 0, eng)
         ELSE [ClearMediaInfo(g) EXCEPT !.playing = FALSE]
    ELSE g

\* Jukebox._update_progress(): the 200 ms timer
UpdateProgress(g) ==
    IF ~Truthy(g.vmedia) THEN [g EXCEPT !.playing = FALSE]
    ELSE [g EXCEPT !.playing = (g.vstate = "Playing")]

\* a variant of AddToFavorites without the check for a present identifier
AddToFavoritesUnchecked(g) ==
    IF g.info = <<>> THEN g
    ELSE LET track_to_add == g.info[1] IN
         IF ~Truthy(Identifier(track_to_add)) THEN g
         ELSE [g EXCEPT !.fav = Append(@, TrackCopy(track_to_add))]

\* Jukebox.add_to_favorites()
AddToFavorites(g) ==
    IF g.info = <<>> THEN g
    ELSE LET track_to_add == g.info[1]
             identifier == Identifier(track_to_add)
         IN IF ~Truthy(identifier) THEN g
            ELSE IF \E k \in 1..Len(g.fav) : Identifier(g.fav[k]) = identifier THEN g
            ELSE [g EXCEPT !.fav = Append(@, TrackCopy(track_to_add))]

\* a variant of RemoveTrackFromPlaylist that keeps current_idx when an
\* earlier track is removed
RemoveTrackNoShift(g, index, eng) ==
    IF ~(0 <= index /\ index < Len(g.playlist)) THEN g
    ELSE
    LET g1 == [g EXCEPT !.playlist = SubSeq(@, 1, index) \o SubSeq(@, index + 2, Len(@))]
    IN
    IF index = g.idx
    THEN LET g2 == ClearMediaInfo(VlcStop(g1)) IN
         IF index < Len(g1.playlist) THEN PlayCurrentIndex(g2, index, eng)
         ELSE IF g1.playlist # <<>>
         THEN PlayCurrentIndex(g2, IF index - 1 > 0 THEN index - 1 ELSE 0, eng)
         ELSE [g2 EXCEPT !.idx = -1]
    ELSE g1

\* Jukebox._remove_track_from_playlist(index): pop the track; when it was the
\* current one stop and start its successor (or the new last track), when it
\* came before the current one move current_idx down
RemoveTrackFromPlaylist(g, index, eng) ==
    IF ~(0 <= index /\ index < Len(g.playlist)) THEN g
    ELSE
    LET g1 == [g EXCEPT !.playlist = SubSeq(@, 1, index) \o SubSeq(@, index + 2, Len(@))]
    IN
    IF index = g.idx
    THEN LET g2 == ClearMediaInfo(VlcStop(g1)) IN
         IF index < Len(g1.playlist) THEN PlayCurrentIndex(g2, index, eng)
         ELSE IF g1.playlist # <<>>
         THEN PlayCurrentIndex(g2, IF index - 1 > 0 THEN index - 1 ELSE 0, eng)
         ELSE [g2 EXCEPT !.idx = -1]
    ELSE IF index < g.idx THEN [g1 EXCEPT !.idx = @ - 1]
    ELSE g1

\* A slot has run: the new playback state, and what ran
RanGui(op, arg, g) ==
    /\ program = "desktop"
    /\ g.timers <= MaxTimers
    /\ Len(g.covers) <= MaxFetches
    /\ GuiApply(g)
    /\ UNCHANGED <<srv_vars, program, calls>>
    /\ glast' = [op |-> op, arg |-> arg, pre_idx |-> current_idx]

\* the same, for a slot that leaves the search state alone
Ran(op, arg, g) == RanGui(op, arg, g) /\ UNCHANGED search_vars

\* double click on a playlist row: _queue_double_clicked
QueueDoubleClicked(i) ==
    /\ 0 <= i /\ i < Len(playlist)
    /\ \E eng \in EngOutcomes : Ran("play_at", i, PlayCurrentIndex(Gui, i, eng))
    /\ UNCHANGED events

\* the context menu's remove entry on row i, or a stale call with a bad index
RemoveClicked(i) ==
    /\ \E eng \in EngOutcomes : RanGui("remove", i, RemoveTrackFromPlaylist(Gui, i, eng))
    /\ UNCHANGED <<events, search_vars>>

\* the Next button or shortcut
NextClicked ==
    /\ \E eng \in EngOutcomes : Ran("play_next", -1, PlayNext(Gui, eng))
    /\ UNCHANGED events

\* the Previous button or shortcut
PreviousClicked ==
    /\ \E eng \in EngOutcomes : Ran("play_previous", -1, PlayPrevious(Gui, eng))
    /\ UNCHANGED events

\* the Play/Pause button or shortcut
TogglePlayClicked ==
    /\ \E eng \in EngOutcomes : Ran("toggle_play", -1, TogglePlay(Gui, eng))
    /\ UNCHANGED events

\* the progress timer fires
ProgressTimer ==
    /\ Ran("update_progress", -1, UpdateProgress(Gui))
    /\ UNCHANGED events

\* a QTimer.singleShot(.., self.play_next) fires
PlayNextTimer ==
    /\ timers > 0
    /\ \E eng \in EngOutcomes :
          Ran("play_next", -1, PlayNext([Gui EXCEPT !.timers = @ - 1], eng))
    /\ UNCHANGED events

\* the engine, on its own thread: it starts playing, reaches the end of the
\* media or fails; the last two post an event to the Qt loop (event_attach)
GuiEngineStep ==
    /\ \/ /\ gvlc_state = "Opening"
          /\ gvlc_state' = "Playing"
          /\ UNCHANGED events
       \/ /\ gvlc_state \in {"Opening", "Playing"}
          /\ Len(events) < MaxEvents
          /\ gvlc_state' = "Error"
          /\ events' = Append(events, "error")
       \/ /\ gvlc_state = "Playing"
          /\ Len(events) < MaxEvents
          /\ gvlc_state' = "Ended"
          /\ events' = Append(events, "end")
    /\ glast' = [op |-> "engine", arg |-> -1, pre_idx |-> current_idx]
    /\ program = "desktop"
    /\ UNCHANGED <<playlist, current_idx, self_is_playing, history, favorites,
                   current_track_info, gvlc_media, timers, probes, probe_workers,
                   cover, cover_worker, covers, cache,
                   srv_vars, search_vars, program, calls>>

\* Jukebox._on_media_event: EndReached schedules play_next in 50 ms,
\* EncounteredError runs _handle_playback_error
OnMediaEvent ==
    /\ events # <<>>
    /\ events' = Tail(events)
    /\ IF Head(events) = "end"
       THEN Ran("on_media_event", -1, [Gui EXCEPT !.timers = @ + 1])
       ELSE Ran("on_media_event", -1, HandlePlaybackError(Gui))

\* the "Aggiungi ai Preferiti" button; the length of the list before is recorded
AddToFavoritesClicked ==
    /\ RanGui("add_to_favorites", Len(favorites), AddToFavorites(Gui))
    /\ UNCHANGED <<events, search_vars>>

\* the history slot called on its own (add_to_history_signal)
HistoryInputs ==
    { Track(Stream(k), FALSE, Page(k)) : k \in {1, 2, MAX_HISTORY_SIZE, MAX_HISTORY_SIZE + 1} }
    \cup { Track(Page(2), FALSE, NONE), Track(NONE, FALSE, NONE), Track(Stream(1), TRUE, NONE) }

AddToHistorySlot(t) ==
    /\ calls < MaxCalls
    /\ calls' = calls + 1
    /\ history' = IF program = "nogui" THEN AddToHistoryNogui(history, t)
                  ELSE AddToHistory(history, t)
    /\ glast' = [op |-> "add_to_history", arg |-> Len(history), pre_idx |-> current_idx]
    /\ UNCHANGED <<playlist, current_idx, self_is_playing, favorites, current_track_info,
                   gvlc_state, gvlc_media, events, timers, probes, probe_workers,
                   cover, cover_worker, covers, cache,
                   srv_vars, search_vars, program>>

\* the histories load_json("history.json") can return: what the program saved
LoadedHistory(n) == [k \in 1..n |-> Track(Stream(k), FALSE, Page(k))]

\* a variant of Constructed that starts nothing
ConstructedIdle(pl, h, eng, files) ==
    [playlist |-> pl, idx |-> -1, playing |-> FALSE, history |-> h,
     fav |-> <<>>, info |-> <<>>,
     vstate |-> "NothingSpecial", vmedia |-> NONE, timers |-> 0,
     probes |-> <<>>, probe_workers |-> <<>>,
     cover |-> "default", cover_worker |-> 0, covers |-> <<>>,
     cache |-> files]

\* Jukebox.__init__: the lists are loaded, and the first track is started
\* when the playlist is not empty
Constructed(pl, h, eng, files) ==
    LET g0 == [playlist |-> pl, idx |-> -1, playing |-> FALSE, history |-> h,
               fav |-> <<>>, info |-> <<>>,
               vstate |-> "NothingSpecial", vmedia |-> NONE, timers |-> 0,
               probes |-> <<>>, probe_workers |-> <<>>,
               cover |-> "default", cover_worker |-> 0, covers |-> <<>>,
               cache |-> files]
    IN IF pl # <<>> THEN PlayCurrentIndex([g0 EXCEPT !.idx = 0], 0, eng) ELSE g0

GuiStart(g) ==
    /\ playlist = g.playlist
    /\ current_idx = g.idx
    /\ self_is_playing = g.playing
    /\ history = g.history
    /\ favorites = g.fav
    /\ current_track_info = g.info
    /\ gvlc_state = g.vstate
    /\ gvlc_media = g.vmedia
    /\ timers = g.timers
    /\ probes = g.probes
    /\ probe_workers = g.probe_workers
    /\ cover = g.cover
    /\ cover_worker = g.cover_worker
    /\ covers = g.covers
    /\ cache = g.cache
    /\ events = <<>>
    /\ glast = [op |-> "init", arg |-> -1, pre_idx |-> -1]
    /\ is_searching = FALSE
    /\ yt_search_worker = 0
    /\ context_download_worker = 0
    /\ workers = <<>>
    /\ mailbox = <<>>

GuiInit ==
    \E pl \in Playlists, eng \in EngOutcomes : GuiStart(Constructed(pl, <<>>, eng, NoCovers))

----------------------------------------------------------------------------
\* src/jukebox_gui.py and src/backend/jukebox_workers.py: search and download.
\* A YoutubeSearchWorker is a QThread: "running" until run() has emitted its
\* last signal, "emitted" until run() returns, "ended" once the thread is over
\* and `finished` is queued, "finished" once _on_search_worker_finished ran.
\* Its signals reach the control thread through the Qt event queue, in the
\* order they were emitted.  FFmpeg is installed and DOWNLOAD_DIR holds no
\* file for the queries (search_song's cache branch is not taken).

\* In the search runs the engine refuses a media or plays it at once, and the
\* requests are: nothing typed, a text query, a URL with the download box ticked.
SearchEngOutcomes == {"nomedia", "playing"}

\* At startup the playlist is empty or holds one stream track.
SearchPlaylists == { <<>>, LoadedPlaylist(1, {}) }

SearchInputs == { <<NONE, FALSE>>, <<"text", FALSE>>, <<"url", TRUE>> }

File(k) == "/downloads/youtube_" \o ToString(k) \o ".mp3"

IsYoutube(u) == \E k \in 1..(MaxPL + MaxWorkers * MaxResults + MaxResults) : u = Page(k)

\* YoutubeSearchWorker.__init__(query, num_results, download_audio)
NewWorker(kind, query, is_url, download_audio, index) ==
    [kind |-> kind, query |-> query, pc |-> "running", cancelled |-> FALSE, is_url |-> is_url,
     download_audio |-> download_audio, original_playlist_index |-> index]

\* QThread.isRunning() of worker w (0 is None)
IsRunning(w) == w # 0 /\ workers[w].pc \in {"running", "emitted"}

Running == { w \in 1..Len(workers) : IsRunning(w) }

\* the k-th Track built by worker w from entry k of the provider's answer
Produced(w, k, local) ==
    LET n == MaxPL + (w - 1) * MaxResults + k IN
    IF local THEN Track(File(n), TRUE, Page(n)) ELSE Track(Stream(n), FALSE, Page(n))

\* YoutubeSearchWorker.run(): the lists it can emit with results_ready when
\* it is not cancelled.  A download that worked gives the local file, one
\* that did not gives the stream locator.
ResultLists(w) ==
    LET wk == workers[w]
        download == wk.download_audio /\ wk.is_url
        count == IF wk.kind = "context" THEN {0, 1} ELSE 0..MaxResults
    IN { [k \in 1..n |-> Produced(w, k, local)] :
            n \in count, local \in (IF download THEN BOOLEAN ELSE {FALSE}) }

\* YoutubeSearchWorker.run(), up to its last emit
WorkerEmissions(w) ==
    IF workers[w].cancelled
    THEN { <<>>, <<[w |-> w, sig |-> "results", tracks |-> <<>>]>> }
    ELSE { <<[w |-> w, sig |-> "results", tracks |-> ts]>> : ts \in ResultLists(w) }
         \cup { << [w |-> w, sig |-> "error", tracks |-> <<>>],
                   [w |-> w, sig |-> "results", tracks |-> <<>>] >> }

\* FileProbeWorker.__init__(path): a QThread that reads the duration of a
\* local file through an engine sub-instance of its own.  pc is the place of
\* run(); instance and media are the attributes: "none" before creation,
\* "held" while the attribute refers to the handle, "released" once it was
\* reset to None by the code that releases the handle.  media_to_release and
\* instance_to_release are the locals of run()'s finally block (TRUE: the
\* local refers to the handle); media_releases and instance_releases count
\* the release() calls made on each handle.
NewProbe(path) ==
    [path |-> path, pc |-> "start", cancelled |-> FALSE,
     instance |-> "none", media |-> "none", duration_ms |-> 0,
     media_to_release |-> FALSE, instance_to_release |-> FALSE,
     media_releases |-> 0, instance_releases |-> 0]

\* QThread.isRunning() of probe p: started, run() has not returned
ProbeIsRunning(p) == p.pc # "ended"

\* probe_worker = FileProbeWorker(path); self.probe_workers.append(..); start()
StartProbe(g, path) ==
    [g EXCEPT !.probes = Append(@, NewProbe(path)),
              !.probe_workers = Append(@, Len(g.probes) + 1)]

\* FileProbeWorker.cancel()
ProbeCancel(p) ==
    [p EXCEPT !.cancelled = TRUE,
              !.media = IF @ = "held" THEN "released" ELSE @,
              !.media_releases = IF p.media = "held" THEN @ + 1 ELSE @,
              !.instance = IF @ = "held" THEN "released" ELSE @,
              !.instance_releases = IF p.instance = "held" THEN @ + 1 ELSE @]

\* a variant of AddTracksToPlaylist that puts the new tracks first
AddTracksAtFront(g, tracks) ==
    [g EXCEPT !.playlist =
        SelectSeq(tracks, LAMBDA t : Truthy(t.url) \/ Truthy(t.webpage_url)) \o @]

\* Jukebox._add_tracks_to_playlist(tracks)
AddTracksToPlaylist(g, tracks) ==
    [g EXCEPT !.playlist =
        @ \o SelectSeq(tracks, LAMBDA t : Truthy(t.url) \/ Truthy(t.webpage_url))]

\* Jukebox._handle_search_results(tracks)
HandleSearchResults(g, tracks, eng) ==
    IF tracks = <<>> THEN g
    ELSE
    LET start_index_of_new_tracks == Len(g.playlist)
        g1 == AddTracksToPlaylist(g, tracks)
    IN IF ~VlcIsPlaying(g1) /\ Len(g1.playlist) > start_index_of_new_tracks
       THEN PlayCurrentIndex(g1, start_index_of_new_tracks, eng)
       ELSE g1

\* Jukebox._handle_context_download_results(tracks), sender's index given
HandleContextDownloadResults(g, original_index, tracks) ==
    IF Len(tracks) # 1 THEN g
    ELSE
    LET local_track_data == tracks[1] IN
    IF ~local_track_data.is_local \/ ~Truthy(local_track_data.url) THEN g
    ELSE IF 0 <= original_index /\ original_index < Len(g.playlist)
    THEN LET original_track == [g.playlist[original_index + 1] EXCEPT
                                    !.url = local_track_data.url, !.is_local = TRUE,
                                    !.duration_sec = IF local_track_data.duration_sec > 0
                                                     THEN local_track_data.duration_sec ELSE @]
             g1 == [g EXCEPT !.playlist[original_index + 1] = original_track,
                             !.info = IF @ # <<>> /\ g.idx = original_index
                                      THEN <<original_track>> ELSE @]
         IN IF original_track.duration_sec <= 0
            THEN StartProbe(g1, original_track.url)
            ELSE g1
    ELSE g

\* the search flag after search_song found it set (lines 1061-1081)
BusyFlag == IF IsRunning(yt_search_worker) THEN is_searching ELSE FALSE

\* Jukebox.search_song(); query is "" (nothing typed), "text" or "url"
SearchSong(query, download_requested) ==
    /\ UNCHANGED <<events, context_download_worker, mailbox>>
    /\ IF query = NONE
       THEN /\ RanGui("search_song", 0, Gui)
            /\ UNCHANGED <<is_searching, yt_search_worker, workers>>
       ELSE IF is_searching
       THEN /\ RanGui("search_song", 0, Gui)
            /\ is_searching' = BusyFlag
            /\ workers' = IF IsRunning(yt_search_worker)
                          THEN [workers EXCEPT ![yt_search_worker].cancelled = TRUE]
                          ELSE workers
            /\ UNCHANGED yt_search_worker
       ELSE /\ Len(workers) < MaxWorkers
            /\ RanGui("search_song", Len(workers) + 1, Gui)
            /\ is_searching' = TRUE
            /\ workers' = Append(workers,
                            NewWorker("search", query, query = "url", download_requested, -1))
            /\ yt_search_worker' = Len(workers) + 1

\* the context menu's download entry: Jukebox._download_track_from_playlist(index)
DownloadTrackFromPlaylist(index) ==
    /\ UNCHANGED <<events, yt_search_worker, mailbox>>
    /\ IF \/ ~(0 <= index /\ index < Len(playlist))
          \/ playlist[index + 1].is_local
          \/ ~IsYoutube(playlist[index + 1].webpage_url)
          \/ is_searching
       THEN /\ RanGui("download", 0, Gui)
            /\ UNCHANGED <<is_searching, context_download_worker, workers>>
       ELSE /\ Len(workers) < MaxWorkers
            /\ RanGui("download", Len(workers) + 1, Gui)
            /\ is_searching' = TRUE
            /\ workers' = Append(workers, NewWorker("context", playlist[index + 1].webpage_url,
                                                        TRUE, TRUE, index))
            /\ context_download_worker' = Len(workers) + 1

\* the worker thread: run() emits its signals
WorkerRun(w) ==
    /\ program = "desktop"
    /\ w \in 1..Len(workers)
    /\ workers[w].pc = "running"
    /\ \E msgs \in WorkerEmissions(w) : mailbox' = mailbox \o msgs
    /\ workers' = [workers EXCEPT ![w].pc = "emitted"]
    /\ UNCHANGED <<srv_vars, gui_vars, is_searching, yt_search_worker,
                   context_download_worker, program, calls>>

\* the worker thread: run() returns, the thread ends and `finished` is emitted
WorkerReturn(w) ==
    /\ program = "desktop"
    /\ w \in 1..Len(workers)
    /\ workers[w].pc = "emitted"
    /\ mailbox' = Append(mailbox, [w |-> w, sig |-> "finished", tracks |-> <<>>])
    /\ workers' = [workers EXCEPT ![w].pc = "ended"]
    /\ UNCHANGED <<srv_vars, gui_vars, is_searching, yt_search_worker,
                   context_download_worker, program, calls>>

\* a variant of FinishedFlag that clears the flag for the search worker only
FinishedFlagOfSearch(sender_worker) ==
    IF yt_search_worker = sender_worker THEN FALSE ELSE is_searching

\* Jukebox._on_search_worker_finished(), sender given: the flag and the slot
FinishedFlag(sender_worker) == FALSE

FinishedSlot(sender_worker) ==
    IF yt_search_worker = sender_worker THEN 0 ELSE yt_search_worker

\* the durations get_duration() can give: none, or 7 seconds
ProbeDurations == {0, 7000}

\* the files the user can pick in the import dialog: none, one, or two
ImportInputs == { <<>>, <<File(1)>>, <<File(1), File(2)>> }

\* FileProbeWorker.run(), one step of probe p on its thread, d being what
\* get_duration() gives (0 when the parse failed or the duration is invalid):
\*   "start"    456-462  leave if cancelled, else create the sub-instance
\*   "instance" 464-474  leave if cancelled, else create the media and parse
\*   "parsing"  476-508  wait for the parse, leave if cancelled, else read d
\*   "finally"  509-513  copy the attributes into the locals
\*   "clear"    514-515  reset the attributes to None
\*   "release"  517-526  release what the locals hold, test the cancel flag
\*   "emit"     527      probe_done.emit(path, duration_ms)
\*   "return"            run() returns, the thread is over
ProbeRun(p, d) ==
    IF p.pc = "start"
    THEN IF p.cancelled THEN [p EXCEPT !.pc = "finally"]
         ELSE [p EXCEPT !.pc = "instance", !.instance = "held"]
    ELSE IF p.pc = "instance"
    THEN IF p.cancelled THEN [p EXCEPT !.pc = "finally"]
         ELSE [p EXCEPT !.pc = "parsing", !.media = "held"]
    ELSE IF p.pc = "parsing"
    THEN IF p.cancelled THEN [p EXCEPT !.pc = "finally"]
         ELSE [p EXCEPT !.pc = "finally", !.duration_ms = d]
    ELSE IF p.pc = "finally"
    THEN [p EXCEPT !.media_to_release = (p.media = "held"),
                   !.instance_to_release = (p.instance = "held"),
                   !.pc = "clear"]
    ELSE IF p.pc = "clear"
    THEN [p EXCEPT !.media = IF @ = "held" THEN "released" ELSE @,
                   !.instance = IF @ = "held" THEN "released" ELSE @,
                   !.pc = "release"]
    ELSE IF p.pc = "release"
    THEN [p EXCEPT !.media_releases = IF p.media_to_release THEN @ + 1 ELSE @,
                   !.instance_releases = IF p.instance_to_release THEN @ + 1 ELSE @,
                   !.pc = IF p.cancelled THEN "return" ELSE "emit"]
    ELSE IF p.pc = "emit" THEN [p EXCEPT !.pc = "return"]
    ELSE [p EXCEPT !.pc = "ended"]

\* the thread of probe w takes its next step; its signal is queued for the
\* control thread
ProbeStep(w) ==
    /\ program = "desktop"
    /\ w \in 1..Len(probes) /\ probes[w].pc # "ended"
    /\ \E d \in (IF probes[w].pc = "parsing" /\ ~probes[w].cancelled
                 THEN ProbeDurations ELSE {0}) :
          probes' = [probes EXCEPT ![w] = ProbeRun(probes[w], d)]
    /\ mailbox' = IF probes[w].pc = "emit"
                  THEN Append(mailbox, [w |-> w, sig |-> "probe_done", tracks |-> <<>>,
                                        path |-> probes[w].path,
                                        duration_ms |-> probes[w].duration_ms])
                  ELSE mailbox
    /\ UNCHANGED <<srv_vars, playlist, current_idx, self_is_playing, history,
                   favorites, current_track_info, gvlc_state, gvlc_media, events,
                   timers, glast, probe_workers, cover, cover_worker, covers, cache,
                   is_searching, yt_search_worker,
                   context_download_worker, workers, program, calls>>

\* a variant of FirstLocalAt that takes the first local track, whatever its path
FirstLocalAny(pl, path) ==
    IF \E i \in 1..Len(pl) : pl[i].is_local
    THEN (CHOOSE i \in 1..Len(pl) :
            /\ pl[i].is_local
            /\ \A j \in 1..(i - 1) : ~pl[j].is_local) - 1
    ELSE -1

\* position (from 0) of the first local track of the playlist at this path, or -1
FirstLocalAt(pl, path) ==
    IF \E i \in 1..Len(pl) : pl[i].is_local /\ pl[i].url = path
    THEN (CHOOSE i \in 1..Len(pl) :
            /\ pl[i].is_local /\ pl[i].url = path
            /\ \A j \in 1..(i - 1) : ~(pl[j].is_local /\ pl[j].url = path)) - 1
    ELSE -1

\* Jukebox._handle_probe_done(path, duration_ms)
HandleProbeDone(g, path, duration_ms) ==
    LET duration_sec == IF duration_ms > 0 THEN duration_ms \div 1000 ELSE 0
        track_index == FirstLocalAt(g.playlist, path)
        g1 == IF track_index >= 0
              THEN [g EXCEPT !.playlist[track_index + 1].duration_sec = duration_sec,
                             !.info = IF @ # <<>> /\ g.idx = track_index
                                      THEN <<[@[1] EXCEPT !.duration_sec = duration_sec]>>
                                      ELSE @]
              ELSE g
    IN [g1 EXCEPT !.probe_workers =
            SelectSeq(@, LAMBDA w : g.probes[w].path # path /\ ProbeIsRunning(g.probes[w]))]

\* the probes after _import_files cancelled the running ones of self.probe_workers
CancelRunning(g) ==
    [w \in 1..Len(g.probes) |->
        IF (\E k \in 1..Len(g.probe_workers) : g.probe_workers[k] = w)
           /\ ProbeIsRunning(g.probes[w])
        THEN ProbeCancel(g.probes[w]) ELSE g.probes[w]]

RECURSIVE StartProbes(_, _)
\* for track_to_probe in needs_probe: start a FileProbeWorker on its path
StartProbes(g, tracks) ==
    IF tracks = <<>> THEN g
    ELSE StartProbes(StartProbe(g, Head(tracks).url), Tail(tracks))

\* Jukebox._import_files() after the dialog returned `paths`, all of them
\* audio files
ImportFilesBody(g, paths, eng) ==
    IF paths = <<>> THEN g
    ELSE
    LET g1 == [g EXCEPT !.probes = CancelRunning(g), !.probe_workers = <<>>]
        imported_tracks == [k \in 1..Len(paths) |-> Track(paths[k], TRUE, paths[k])]
        start_index_of_imported == Len(g1.playlist)
        g2 == StartProbes(AddTracksToPlaylist(g1, imported_tracks), imported_tracks)
    IN IF ~VlcIsPlaying(g2) /\ Len(g2.playlist) > start_index_of_imported
       THEN PlayCurrentIndex(g2, start_index_of_imported, eng)
       ELSE g2

\* the Import button
ImportFiles ==
    \E paths \in ImportInputs, eng \in SearchEngOutcomes :
        /\ Len(probes) + Len(paths) <= MaxProbes
        /\ RanGui("import_files", Len(paths), ImportFilesBody(Gui, paths, eng))
        /\ UNCHANGED <<events, search_vars>>

\* CoverDownloadWorker.run(), one step of cover worker w on its thread:
\*   "start"    350-378  leave if cancelled; request the image (it may fail);
\*                       open save_path for writing
\*   "transfer" 379-398  leave if cancelled, deleting the file; write the
\*                       chunks (the write may fail); the image written is
\*                       valid or not
\*   "written"  400-412  leave if cancelled, deleting the file; else
\*                       cover_ready.emit(save_path)
\*   "return"            run() returns, `finished` is queued
\* Every leave emits cover_error.  A file unlinked while it is written stays
\* absent from the directory.
CoverStep(w) ==
    /\ program = "desktop"
    /\ w \in 1..Len(covers) /\ covers[w].pc # "ended"
    /\ LET c == covers[w]
           Msg(sig) == [w |-> w, sig |-> sig, tracks |-> <<>>, path |-> c.url]
           Leave(file) == /\ covers' = [covers EXCEPT ![w].pc = "return"]
                          /\ cache' = [cache EXCEPT ![c.url] = file]
                          /\ mailbox' = Append(mailbox, Msg("cover_error"))
       IN
       IF c.pc = "start"
       THEN \/ Leave(cache[c.url])
            \/ /\ ~c.cancelled
               /\ covers' = [covers EXCEPT ![w].pc = "transfer"]
               /\ cache' = [cache EXCEPT ![c.url] = "partial"]
               /\ mailbox' = mailbox
       ELSE IF c.pc = "transfer"
       THEN IF c.cancelled THEN Leave("absent")
            ELSE \/ Leave(cache[c.url])
                 \/ \E image \in {"valid", "corrupt"} :
                      /\ covers' = [covers EXCEPT ![w].pc = "written"]
                      /\ cache' = [cache EXCEPT ![c.url] = IF @ = "absent" THEN @ ELSE image]
                      /\ mailbox' = mailbox
       ELSE IF c.pc = "written"
       THEN IF c.cancelled THEN Leave("absent")
            ELSE /\ covers' = [covers EXCEPT ![w].pc = "return"]
                 /\ mailbox' = Append(mailbox, Msg("cover_ready"))
                 /\ cache' = cache
       ELSE /\ covers' = [covers EXCEPT ![w].pc = "ended"]
            /\ mailbox' = Append(mailbox, Msg("cover_finished"))
            /\ cache' = cache
    /\ UNCHANGED <<srv_vars, playlist, current_idx, self_is_playing, history,
                   favorites, current_track_info, gvlc_state, gvlc_media, events,
                   timers, glast, probes, probe_workers, cover, cover_worker,
                   is_searching, yt_search_worker, context_download_worker, workers,
                   program, calls>>

\* Jukebox._handle_downloaded_cover_ready(file_path_str): show the file, or
\* the default cover when it is not a valid image, deleting it
HandleDownloadedCoverReady(g, u) ==
    IF g.cache[u] = "valid" THEN [g EXCEPT !.cover = u]
    ELSE [g EXCEPT !.cover = "default", !.cache[u] = "absent"]

\* a variant of OnCoverWorkerFinished that clears the slot whoever finished
OnCoverWorkerFinishedClearing(g, sender_worker) == [g EXCEPT !.cover_worker = 0]

\* Jukebox._on_cover_worker_finished(), sender given
OnCoverWorkerFinished(g, sender_worker) ==
    [g EXCEPT !.cover_worker = IF @ = sender_worker THEN 0 ELSE @]

\* the control thread takes the next queued worker signal and runs its slot
Deliver ==
    /\ mailbox # <<>>
    /\ mailbox' = Tail(mailbox)
    /\ UNCHANGED <<events, context_download_worker>>
    /\ LET m == Head(mailbox)
           wk == workers[m.w]
       IN
       IF m.sig = "cover_ready"
       THEN /\ RanGui("cover_ready", m.w, HandleDownloadedCoverReady(Gui, m.path))
            /\ UNCHANGED <<is_searching, yt_search_worker, workers>>
       ELSE IF m.sig = "cover_error"
       THEN /\ RanGui("cover_error", m.w, Gui)
            /\ UNCHANGED <<is_searching, yt_search_worker, workers>>
       ELSE IF m.sig = "cover_finished"
       THEN /\ RanGui("cover_finished", m.w, OnCoverWorkerFinished(Gui, m.w))
            /\ UNCHANGED <<is_searching, yt_search_worker, workers>>
       ELSE IF m.sig = "probe_done"
       THEN /\ RanGui("probe_done", m.w, HandleProbeDone(Gui, m.path, m.duration_ms))
            /\ UNCHANGED <<is_searching, yt_search_worker, workers>>
       ELSE IF m.sig = "results"
       THEN /\ \E eng \in SearchEngOutcomes :
                 RanGui("results", m.w,
                        IF wk.kind = "search"
                        THEN HandleSearchResults(Gui, m.tracks, eng)
                        ELSE HandleContextDownloadResults(Gui, wk.original_playlist_index,
                                                          m.tracks))
            /\ UNCHANGED <<is_searching, yt_search_worker, workers>>
       ELSE IF m.sig = "error"
       THEN /\ RanGui("error", m.w, Gui)
            /\ UNCHANGED <<is_searching, yt_search_worker, workers>>
       ELSE /\ RanGui("finished", m.w, Gui)
            /\ is_searching' = FinishedFlag(m.w)
            /\ yt_search_worker' = FinishedSlot(m.w)
            /\ workers' = [workers EXCEPT ![m.w].pc = "finished"]

----------------------------------------------------------------------------
\* Specifications

\* Either program, started on its loaded lists, under its commands and events
Init ==
    /\ calls = 0
    /\ \/ program = "server" /\ SrvInit /\ GuiStart(Constructed(<<>>, <<>>, "nomedia", NoCovers))
       \/ /\ program = "desktop" /\ GuiInit
          /\ player = TRUE /\ current_playlist = <<>> /\ SrvIdle

Next ==
    \/ \E i \in -1..MaxPL : PlayerPlayIndex(i)
    \/ PlayerPlayResume
    \/ PlayerPause
    \/ PlayerNext
    \/ PlayerPrevious
    \/ PlayerStatus
    \/ AddWebradio
    \/ EngineStep
    \/ EndReached
    \/ \E i \in 0..MaxPL : QueueDoubleClicked(i)
    \/ NextClicked
    \/ PreviousClicked
    \/ TogglePlayClicked
    \/ ProgressTimer
    \/ PlayNextTimer
    \/ GuiEngineStep
    \/ OnMediaEvent

Spec == Init /\ [][Next]_vars

\* The history list of either Jukebox class, loaded and then fed by its slot
HistoryInit ==
    /\ calls = 0
    /\ program \in {"desktop", "nogui"}
    /\ \E n \in 0..MAX_HISTORY_SIZE : GuiStart(Constructed(<<>>, LoadedHistory(n), "nomedia", NoCovers))
    /\ player = TRUE /\ current_playlist = <<>> /\ SrvIdle

HistoryNext == \E t \in HistoryInputs : AddToHistorySlot(t)

SpecHistory == HistoryInit /\ [][HistoryNext]_vars

\* The desktop player's favorites: playlists whose entries share identifiers
\* (stream and local copy of one page, a stream and a file known by url only),
\* and the favorites lists the program saves
FavoritesPlaylists ==
    { << Track(Stream(1), FALSE, Page(1)), Track(Stream(2), TRUE, Page(1)),
         Track(Stream(3), FALSE, NONE), Track(Stream(3), TRUE, NONE) >>,
      << Track(Stream(1), FALSE, Page(1)), Track(NONE, FALSE, Page(2)),
         Track(Stream(1), FALSE, Page(3)) >> }

LoadedFavorites ==
    { <<>>, << Track(Stream(1), FALSE, Page(1)) >>,
      << Track(Stream(3), TRUE, NONE), Track(Stream(2), FALSE, Page(2)) >> }

FavoritesInit ==
    /\ calls = 0
    /\ program = "desktop"
    /\ \E pl \in FavoritesPlaylists, f \in LoadedFavorites, eng \in EngOutcomes :
          GuiStart([Constructed(pl, <<>>, eng, NoCovers) EXCEPT !.fav = f])
    /\ player = TRUE /\ current_playlist = <<>> /\ SrvIdle

FavoritesNext ==
    \/ \E i \in 0..Len(playlist) : QueueDoubleClicked(i)
    \/ NextClicked
    \/ PlayNextTimer
    \/ AddToFavoritesClicked

SpecFavorites == FavoritesInit /\ [][FavoritesNext]_vars

\* The desktop player under search and download requests
SearchInit ==
    /\ calls = 0
    /\ program = "desktop"
    /\ \E pl \in SearchPlaylists, eng \in SearchEngOutcomes :
          GuiStart(Constructed(pl, <<>>, eng, NoCovers))
    /\ player = TRUE /\ current_playlist = <<>> /\ SrvIdle

SearchNext ==
    \/ \E r \in SearchInputs : SearchSong(r[1], r[2])
    \/ \E i \in 0..Len(playlist) : DownloadTrackFromPlaylist(i)
    \/ \E w \in 1..MaxWorkers : WorkerRun(w)
    \/ \E w \in 1..MaxWorkers : WorkerReturn(w)
    \/ Deliver

SpecSearch == SearchInit /\ [][SearchNext]_vars

\* The same with fewer workers, and the Qt event loop taking every queued signal
SearchLiveNext ==
    \/ \E r \in SearchInputs : SearchSong(r[1], r[2]) /\ Len(workers') <= MaxLiveWorkers
    \/ \E i \in 0..Len(playlist) :
          DownloadTrackFromPlaylist(i) /\ Len(workers') <= MaxLiveWorkers
    \/ \E w \in 1..MaxLiveWorkers : WorkerRun(w)
    \/ \E w \in 1..MaxLiveWorkers : WorkerReturn(w)
    \/ Deliver

\* started on the one-track playlist, the track playing
SearchLiveInit == SearchInit /\ playlist # <<>> /\ gvlc_state = "Playing"

SpecSearchLive == SearchLiveInit /\ [][SearchLiveNext]_vars /\ WF_vars(Deliver)

\* The desktop player under search and download requests with the fewer
\* workers, started on either playlist with the engine playing or refusing
SpecResults == SearchInit /\ [][SearchLiveNext]_vars

\* The desktop player while rows are played and removed
RemoveInit == Init /\ program = "desktop"

RemoveNext ==
    \/ \E i \in -1..MaxPL : RemoveClicked(i)
    \/ \E i \in 0..MaxPL : QueueDoubleClicked(i)
    \/ NextClicked
    \/ PlayNextTimer

SpecRemove == RemoveInit /\ [][RemoveNext]_vars

\* src/backend/jukebox_data.py: load_json and Track.from_dict.
\* A JSON value of a list file: null, a number, a string, a list of strings
\* and nulls, or an object whose members are strings or null (None is NONE).
JNull == [type |-> "null"]
JNumber(n) == [type |-> "number", n |-> n]
JString(s) == [type |-> "str", s |-> s]
JList(items) == [type |-> "list", items |-> items]
JDict(map) == [type |-> "dict", map |-> map]

\* dict.get(key, default)
Get(map, key, default) == IF key \in DOMAIN map THEN map[key] ELSE default

\* Track(url, title, ...) with its title
TitledTrack(url, title, is_local, webpage_url) ==
    [title |-> title] @@ Track(url, is_local, webpage_url)

\* Track(None, "Invalid Track Data")
InvalidTrack == TitledTrack(NONE, "Invalid Track Data", FALSE, NONE)

\* Track.from_dict(data).  The locators of the files checked are "http"
\* streams, no file on disk: the path heuristics change nothing, and a
\* missing webpage_url becomes the url.
FromDict(data) ==
    IF data.type \notin {"dict", "str", "list"} \/ (data.type = "list" /\ Len(data.items) < 5)
    THEN InvalidTrack
    ELSE
    LET migrated_data ==
            IF data.type = "str"
            THEN [title |-> data.s, webpage_url |-> data.s, url |-> data.s]
            ELSE IF data.type = "list"
            THEN [url |-> data.items[1], title |-> data.items[2],
                  thumbnail_url |-> data.items[3],
                  duration_sec |-> IF data.items[4] # NONE THEN data.items[4] ELSE 0,
                  webpage_url |-> data.items[5]]
            ELSE data.map
        identifier_url ==
            IF data.type = "str" THEN data.s
            ELSE IF data.type = "list" THEN data.items[5]
            ELSE Get(data.map, "webpage_url", Get(data.map, "url", NONE))
        url == Get(migrated_data, "url", NONE)
        title == Get(migrated_data, "title",
                     IF Truthy(identifier_url) THEN identifier_url ELSE "Titolo Sconosciuto")
        webpage_url == Get(migrated_data, "webpage_url", NONE)
    IN [TitledTrack(url, IF Truthy(title) THEN title ELSE "Titolo Sconosciuto", FALSE,
                    IF ~Truthy(webpage_url) /\ Truthy(url) THEN url ELSE webpage_url)
           EXCEPT !.thumbnail_url = Get(migrated_data, "thumbnail_url", NONE),
                  !.duration_sec = Get(migrated_data, "duration_sec", 0)]

\* load_json(name, Track) on a file that holds the JSON list raw_data: every
\* item is converted, and kept when it has a title or a url
LoadJson(raw_data) ==
    SelectSeq([k \in 1..Len(raw_data) |-> FromDict(raw_data[k])],
              LAMBDA item : Truthy(item.title) \/ Truthy(item.url))

\* the elements a list file can hold, well formed and not
MaxItems == 2

JsonItems ==
    { JNull, JNumber(42), JString(Stream(1)),
      JList(<<Stream(2), "two">>),
      JList(<<Stream(3), "three", NONE, NONE, Page(3)>>),
      JDict([url |-> Stream(4), title |-> "four", webpage_url |-> Page(4)]),
      JDict([title |-> NONE]) }

JsonFiles == UNION { [1..n -> JsonItems] : n \in 0..MaxItems }

\* Jukebox.__init__: self.playlist = load_json("playlist.json", Track)
LoadPlaylistFile(raw_data) ==
    /\ program = "desktop"
    /\ playlist' = LoadJson(raw_data)
    /\ glast' = [op |-> "load_playlist", arg |-> Len(raw_data), pre_idx |-> current_idx]
    /\ UNCHANGED <<current_idx, self_is_playing, history, favorites, current_track_info,
                   gvlc_state, gvlc_media, events, timers, probes, probe_workers,
                   cover, cover_worker, covers, cache,
                   srv_vars, search_vars, program, calls>>

\* Jukebox.__init__: self.history = load_json("history.json", Track)
LoadHistoryFile(raw_data) ==
    /\ program = "desktop"
    /\ history' = LoadJson(raw_data)
    /\ glast' = [op |-> "load_history", arg |-> Len(raw_data), pre_idx |-> current_idx]
    /\ UNCHANGED <<playlist, current_idx, self_is_playing, favorites, current_track_info,
                   gvlc_state, gvlc_media, events, timers, probes, probe_workers,
                   cover, cover_worker, covers, cache,
                   srv_vars, search_vars, program, calls>>

\* The desktop player's lists being read from their files
LoadInit ==
    /\ calls = 0
    /\ program = "desktop"
    /\ GuiStart(Constructed(<<>>, <<>>, "nomedia", NoCovers))
    /\ player = TRUE /\ current_playlist = <<>> /\ SrvIdle

LoadNext ==
    \/ \E raw_data \in JsonFiles : LoadPlaylistFile(raw_data)
    \/ \E raw_data \in JsonFiles : LoadHistoryFile(raw_data)

SpecLoad == LoadInit /\ [][LoadNext]_vars

\* The desktop player while rows are downloaded from the context menu and
\* removed, one download at a time
EditInit == Init /\ program = "desktop"

EditNext ==
    \/ \E i \in 0..MaxPL : DownloadTrackFromPlaylist(i) /\ Len(workers') <= MaxLiveWorkers
    \/ \E i \in 0..MaxPL : RemoveClicked(i)
    \/ \E w \in 1..MaxLiveWorkers : WorkerRun(w)
    \/ \E w \in 1..MaxLiveWorkers : WorkerReturn(w)
    \/ Deliver

SpecEdit == EditInit /\ [][EditNext]_vars

\* The desktop player started on a playlist of two tracks with thumbnails,
\* with COVER_DIR empty or holding a file, valid or not, left by an earlier run
CoverInit ==
    /\ calls = 0
    /\ program = "desktop"
    /\ \E eng \in SearchEngOutcomes, file \in {"absent", "valid", "corrupt"} :
          GuiStart(Constructed(
              << [Track(Stream(1), FALSE, Page(1)) EXCEPT !.thumbnail_url = "http://img/1"],
                 [Track(Stream(2), FALSE, Page(2)) EXCEPT !.thumbnail_url = "http://img/2"] >>,
              <<>>, eng, [NoCovers EXCEPT !["http://img/1"] = file]))
    /\ player = TRUE /\ current_playlist = <<>> /\ SrvIdle

CoverNext ==
    \/ \E i \in 0..1 : QueueDoubleClicked(i) /\ Len(covers') <= MaxCovers
    \/ \E w \in 1..MaxCovers : CoverStep(w)
    \/ Deliver

SpecCover == CoverInit /\ [][CoverNext]_vars

\* The desktop player started on one track with a thumbnail, COVER_DIR empty
\* or holding an invalid file: every double click on the track restarts it
\* and asks for its cover again
FetchInit ==
    /\ calls = 0
    /\ program = "desktop"
    /\ \E eng \in SearchEngOutcomes, file \in {"absent", "corrupt"} :
          GuiStart(Constructed(
              << [Track(Stream(1), FALSE, Page(1)) EXCEPT !.thumbnail_url = "http://img/1"] >>,
              <<>>, eng, [NoCovers EXCEPT !["http://img/1"] = file]))
    /\ player = TRUE /\ current_playlist = <<>> /\ SrvIdle

FetchNext ==
    \/ QueueDoubleClicked(0)
    \/ \E w \in 1..MaxFetches : CoverStep(w)
    \/ Deliver

SpecFetch == FetchInit /\ [][FetchNext]_vars

\* The server under volume, play and pause requests
VolumeInit == Init /\ program = "server"

VolumeNext ==
    \/ \E v \in VolumeInputs : PlayerVolume(v)
    \/ \E i \in 0..(MaxPL - 1) : PlayerPlayIndex(i)
    \/ PlayerPause

SpecVolume == VolumeInit /\ [][VolumeNext]_vars

\* The desktop player importing local files while their duration probes run
ProbeNext ==
    \/ ImportFiles
    \/ \E w \in 1..MaxProbes : ProbeStep(w)
    \/ Deliver

SpecProbe == SearchInit /\ [][ProbeNext]_vars

\* The same, started on an empty playlist: every track is an imported file
ImportInit == SearchInit /\ playlist = <<>>

SpecImport == ImportInit /\ [][ProbeNext]_vars

\* The desktop player left to itself after at most one double click made
\* right after startup: the engine opens, plays, ends or fails, the Qt loop
\* hands over the engine's events and fires the play_next timers
SkipClick(i) == glast.op = "init" /\ QueueDoubleClicked(i)

SkipInit == Init /\ program = "desktop"

SkipNext ==
    \/ \E i \in 0..MaxPL : SkipClick(i)
    \/ PlayNextTimer
    \/ GuiEngineStep
    \/ OnMediaEvent

SpecSkip ==
    SkipInit /\ [][SkipNext]_vars
    /\ WF_vars(PlayNextTimer) /\ WF_vars(GuiEngineStep) /\ WF_vars(OnMediaEvent)




----------------------------------------------------------------------------
\* Properties of the server's and the desktop player's playback (Spec)

ValidIndex(i) == 0 <= i /\ i < Len(current_playlist)

\* C1, as stated: for every valid index i, the status read that follows
\* play-at-index i reports media_type = playlist and current_track_index = i.
C1_PlayAtThenStatus_AsStated ==
    [][ (last.op = "play_at" /\ ValidIndex(last.arg) /\ last'.op = "status")
        => (last'.status.media_type = "playlist"
            /\ last'.status.current_track_index = last.arg) ]_vars

\* C1: for every valid index i, when play-at-index i returned True (the engine
\* took the track), the status read that follows reports media_type = playlist
\* and current_track_index = i, and so does the status sent with the answer.
C1_PlayAtThenStatus ==
    [][ /\ (last.op = "play_at" /\ ValidIndex(last.arg) /\ last.ret /\ last'.op = "status")
           => (last'.status.media_type = "playlist"
               /\ last'.status.current_track_index = last.arg)
        /\ (last'.op = "play_at" /\ ValidIndex(last'.arg) /\ last'.ret)
           => (last'.status.media_type = "playlist"
               /\ last'.status.current_track_index = last'.arg) ]_vars

\* C1: play-at-index moved the player to another track, and said so
C1_Witness ==
    /\ last.op = "play_at" /\ last.ret
    /\ last.arg >= 1 /\ last.pre_idx # last.arg
    /\ current_track_index = last.arg
    /\ last.status.current_track_index = last.arg

C3_PreviousAtFirst ==
    [][ /\ (last'.op = "previous" /\ current_playlist # <<>> /\ current_track_index = 0)
           => current_track_index' \in {0, Len(current_playlist) - 1}
        /\ (glast'.op = "play_previous" /\ playlist # <<>> /\ current_idx = 0)
           => current_idx' \in {0, Len(playlist) - 1}
        /\ current_track_index >= -1 /\ current_track_index' >= -1
        /\ current_idx >= -1 /\ current_idx' >= -1 ]_vars

\* C3: the server's playPrevious went from the first track to the last
C3_Witness ==
    /\ last.op = "previous" /\ last.ret
    /\ Len(current_playlist) >= 2
    /\ last.pre_idx = 0
    /\ current_track_index = Len(current_playlist) - 1

\* C4: with an empty playlist, playNext from any mode returns (False), leaves
\* is_playing false and leaves current_media_type as it was.
C4_NextOnEmptyPlaylist ==
    [][ (last'.op = "next" /\ current_playlist = <<>>)
        => /\ ~last'.ret
           /\ ~is_playing'
           /\ ~last'.status.is_playing
           /\ current_media_type' = current_media_type
           /\ last'.status.media_type = current_media_type ]_vars

\* C4: playNext was served in webradio mode, the playlist being empty
C4_Witness ==
    /\ last.op = "next"
    /\ current_playlist = <<>>
    /\ current_media_type = "webradio"
    /\ ~is_playing

\* C5: when the end of the media is reached in webradio mode, the handler
\* changes nothing: the mode, is_playing, the index and the radio are as they
\* were, and no media is set or started.
C5_EndReachedInWebradio ==
    [][ (last'.op = "end_reached" /\ current_media_type = "webradio")
        => /\ current_media_type' = "webradio"
           /\ is_playing' = is_playing
           /\ current_track_index' = current_track_index
           /\ current_radio_info' = current_radio_info
           /\ vlc_media' = vlc_media
           /\ vlc_state' = "Ended" ]_vars

\* C5: a radio stream that was playing has ended
C5_Witness ==
    /\ last.op = "end_reached"
    /\ current_media_type = "webradio"
    /\ current_radio_info # NoRadio
    /\ is_playing
    /\ vlc_state = "Ended"

----------------------------------------------------------------------------
\* Properties of search and download (SpecSearch, SpecSearchLive)

\* C6, as stated: at most one search/download worker is running at any time.
C6_AtMostOneRunning == Cardinality(Running) <= 1

\* C7, as stated: while a search/download worker is active a start request
\* creates no worker, and once the workers have completed and their finished
\* handlers have run, a search request creates one.
C7_SecondStartRejected ==
    [][ /\ Running # {} => Len(workers') = Len(workers)
        /\ \A q \in {"text", "url"}, d \in BOOLEAN :
              (Running = {} /\ mailbox = <<>> /\ workers # <<>> /\ SearchSong(q, d))
              => Len(workers') = Len(workers) + 1 ]_vars

\* C8: once the run of a search/download worker has ended, is_searching is
\* eventually false, whichever way the run ended.
C8_FlagCleared ==
    \A w \in 1..MaxLiveWorkers :
        (w <= Len(workers) /\ workers[w].pc = "ended") ~> ~is_searching

\* C8: the finished handler of a cancelled worker has run and the flag is clear
C8_Witness ==
    /\ glast.op = "finished"
    /\ workers[glast.arg].cancelled
    /\ workers[glast.arg].pc = "finished"
    /\ ~is_searching

----------------------------------------------------------------------------
\* Properties of the history (SpecHistory)

----------------------------------------------------------------------------
\* Properties of the favorites (SpecFavorites)

C13_CachedCover ==
    [][ \A i \in 0..(Len(playlist) - 1) :
          (/\ glast'.op = "play_at" /\ glast'.arg = i
           /\ gvlc_state' \in {"Opening", "Playing"}
           /\ QueueDoubleClicked(i)
           /\ ~(current_idx = i /\ gvlc_state = "Paused")
           /\ playlist[i + 1].thumbnail_url \in Thumbs
           /\ cache[playlist[i + 1].thumbnail_url] = "valid")
          => /\ cover' = playlist[i + 1].thumbnail_url
             /\ Len(covers') = Len(covers)
             /\ cover_worker' = cover_worker
             /\ cache' = cache ]_vars

\* C13: a double click started a track whose cover was cached; the cached
\* image is shown although a download for another cover was started before
C13_Witness ==
    /\ glast.op = "play_at"
    /\ gvlc_state \in {"Opening", "Playing"}
    /\ current_idx >= 0
    /\ playlist[current_idx + 1].thumbnail_url \in Thumbs
    /\ cache[playlist[current_idx + 1].thumbnail_url] = "valid"
    /\ cover = playlist[current_idx + 1].thumbnail_url
    /\ Len(covers) = 1
    /\ covers[1].url # cover
    /\ covers[1].cancelled

\* C14: a playAt(i) with a valid i that fails (no locator, no media, play()
\* refused) reports the failure (the server's operation returns False, the
\* desktop's error handler runs) and leaves the playing flag false and the
\* current index at -1.
C14_FailedPlayAt ==
    [][ \A i \in 0..(MaxPL - 1) :
          /\ (/\ PlayerPlayIndex(i)
              /\ i < Len(current_playlist)
              /\ last'.ret = FALSE)
             => (is_playing' = FALSE /\ current_track_index' = -1)
          /\ (/\ QueueDoubleClicked(i)
              /\ timers' = timers + 1)
             => (self_is_playing' = FALSE /\ current_idx' = -1) ]_vars

C16_StationAdded ==
    [][ \A r \in Radios, eng \in EngOutcomes :
          (/\ player /\ Truthy(r.name) /\ Truthy(r.url_stream)
           /\ AddWebradioBody(Srv, r, eng).ret
           /\ Served("add_webradio", -1, AddWebradioBody(Srv, r, eng), TRUE))
          => /\ \E k \in 1..Len(GetWebradios') : GetWebradios'[k] = r
             /\ current_media_type' = "webradio"
             /\ current_radio_info' = r ]_vars

\* C17: play without an index resumes the media when the engine is paused,
\* leaves mode = webradio and the radio descriptor unchanged in webradio mode,
\* and leaves a valid current index unchanged in playlist mode.
C17_PlayContinues ==
    [][ PlayerPlayResume
        => /\ vlc_state = "Paused"
              => (vlc_media' = vlc_media /\ vlc_state' \in {"Playing", "Paused"})
           /\ current_media_type = "webradio"
              => (current_media_type' = "webradio"
                  /\ current_radio_info' = current_radio_info)
           /\ (current_media_type = "playlist" /\ ValidIndex(current_track_index))
              => current_track_index' = current_track_index ]_vars

\* C18: pause acts only from a playing state: from Playing it leaves the
\* engine paused and the playing flag false, or changes nothing when the
\* engine cannot pause; from any other state it changes neither the engine's
\* play state nor the playing flag (but for the status read of the response).
C18_PauseOnlyFromPlaying ==
    [][ PlayerPause
        => IF vlc_state = "Playing"
           THEN \/ vlc_state' = "Paused" /\ is_playing' = FALSE
                \/ vlc_state' = vlc_state /\ is_playing' = StatusState(Srv).playing
           ELSE vlc_state' = vlc_state /\ is_playing' = StatusState(Srv).playing ]_vars

\* C19: set volume accepts exactly the JSON integers 0..200: such a value
\* becomes the stored and the engine volume; any other value (out of range,
\* not an integer, missing) is answered with an error and changes neither
\* volume; the stored volume is always within 0..200.
C19_VolumeValidated ==
    [][ /\ \A v \in VolumeInputs :
             PlayerVolume(v)
             => IF v.kind = "int" /\ 0 <= v.val /\ v.val <= MAX_VOLUME
                THEN /\ last'.ret = TRUE
                     /\ current_volume' = v.val
                     /\ player => vlc_volume' = v.val
                ELSE /\ last'.ret = FALSE
                     /\ current_volume' = current_volume
                     /\ vlc_volume' = vlc_volume
        /\ 0 <= current_volume' /\ current_volume' <= MAX_VOLUME ]_vars

\* C20 as stated: at startup either program is idle (index -1, not playing,
\* the server in mode none) when the loaded playlist is empty, and at index 0
\* (the server in mode playlist) when a non-empty playlist was loaded.
C20_Startup_AsStated ==
    /\ (program = "desktop" /\ glast.op = "init")
       => IF playlist = <<>>
          THEN current_idx = -1 /\ ~self_is_playing /\ gvlc_state = "NothingSpecial"
          ELSE current_idx = 0
    /\ (program = "server" /\ last.op = "init")
       => IF current_playlist = <<>>
          THEN current_media_type = "none" /\ current_track_index = -1 /\ ~is_playing
          ELSE current_media_type = "playlist" /\ current_track_index = 0

\* C20: at startup the desktop player is idle (index -1, not playing, engine
\* untouched) when the loaded playlist is empty and at index 0, its first
\* track started, when a non-empty playlist was loaded; the server is idle
\* (mode none, index -1, not playing) whatever playlist was loaded.
C20_Startup ==
    /\ (program = "desktop" /\ glast.op = "init")
       => IF playlist = <<>>
          THEN current_idx = -1 /\ ~self_is_playing /\ gvlc_state = "NothingSpecial"
          ELSE /\ current_idx = 0
               /\ \/ gvlc_media = playlist[1].url /\ gvlc_state \in {"Opening", "Playing"}
                  \/ timers = 1 /\ current_track_info = <<>>
    /\ (program = "server" /\ last.op = "init")
       => /\ current_media_type = "none" /\ current_track_index = -1 /\ ~is_playing
          /\ vlc_state = "NothingSpecial"

\* C20: the desktop player has just started on a loaded playlist and plays
\* its first track
C20_Witness ==
    /\ program = "desktop" /\ glast.op = "init"
    /\ Len(playlist) = MaxPL
    /\ current_idx = 0
    /\ gvlc_state = "Playing" /\ gvlc_media = playlist[1].url

----------------------------------------------------------------------------
\* Properties of the playback session (Spec)

C22_PlaylistModeIndex ==
    current_media_type = "playlist" => ValidIndex(current_track_index)

\* C23: in every reachable state of the server's session the current index is
\* -1 whenever the mode is not playlist (none or webradio), also after a
\* failed add_webradio that follows playlist playback.
C23_IndexOutsidePlaylistMode ==
    current_media_type # "playlist" => current_track_index = -1

\* C24: playNext and playPrevious served while the mode is not playlist stop
\* the engine, leave the playing flag false, return False, and leave the mode,
\* the current index, the radio descriptor, the playlist and the engine's
\* media unchanged.
C24_NextOutsidePlaylistMode ==
    [][ (last'.op \in {"next", "previous"} /\ current_media_type # "playlist")
        => /\ player => vlc_state' = "Stopped"
           /\ ~is_playing' /\ ~last'.status.is_playing
           /\ ~last'.ret
           /\ current_media_type' = current_media_type
           /\ current_track_index' = current_track_index
           /\ current_radio_info' = current_radio_info
           /\ current_playlist' = current_playlist
           /\ vlc_media' = vlc_media ]_vars

\* C24: playPrevious was served while a radio was on: the engine is stopped,
\* the radio is still the session's
C24_Witness ==
    /\ last.op = "previous" /\ ~last.ret
    /\ current_media_type = "webradio"
    /\ current_radio_info # NoRadio
    /\ vlc_state = "Stopped"
    /\ vlc_media = current_radio_info.url_stream
    /\ current_playlist # <<>>

\* C25 as stated: playAt(i) served while the engine is paused on playlist
\* index i in playlist mode resumes the engine without stopping it and without
\* loading a media, keeps the index at i and sets the playing flag; in every
\* other case with a valid i the engine's playback is stopped before the new
\* media is loaded.
C25_ResumeOrRestart_AsStated ==
    [][ \A i \in 0..(MaxPL - 1) :
          /\ (last'.op = "play_at" /\ last'.arg = i /\ ValidIndex(i) /\ player)
             => IF vlc_state = "Paused" /\ current_track_index = i
                   /\ current_media_type = "playlist"
                THEN /\ vlc_state' = "Playing" /\ vlc_media' = vlc_media
                     /\ current_track_index' = i /\ is_playing'
                ELSE vlc_state \in {"Playing", "Paused"}
                     => \/ vlc_state' = "Stopped"
                        \/ /\ vlc_media' = current_playlist[i + 1].url
                           /\ vlc_state' \in {"Opening", "Playing"}
          /\ (glast'.op = "play_at" /\ glast'.arg = i)
             => IF gvlc_state = "Paused" /\ current_idx = i
                THEN /\ gvlc_state' = "Playing" /\ gvlc_media' = gvlc_media
                     /\ current_idx' = i /\ self_is_playing'
                ELSE gvlc_state \in {"Playing", "Paused"}
                     => \/ gvlc_state' = "Stopped"
                        \/ /\ gvlc_media' = playlist[i + 1].url
                           /\ gvlc_state' \in {"Opening", "Playing"} ]_vars

\* C25: playAt(i) served while the engine is paused and the current index is
\* i calls play() on the engine without stopping it and without loading a
\* media, and keeps the index at i: when the engine takes the resume it plays
\* and the playing flag is set; when play() is refused the engine stays paused,
\* the server clears the flag and returns False, the desktop sets the flag.
\* In every other case with a valid i an engine that is playing or paused is
\* stopped before the new media is loaded: the outcome is the one of stopping
\* it first, and it is left stopped or on the new media.
C25_ResumeOrRestart ==
    [][ \A i \in 0..(MaxPL - 1) :
          /\ (last'.op = "play_at" /\ last'.arg = i /\ ValidIndex(i) /\ player)
             => IF vlc_state = "Paused" /\ current_track_index = i
                THEN /\ vlc_media' = vlc_media
                     /\ current_track_index' = i
                     /\ \/ last'.ret /\ vlc_state' = "Playing" /\ is_playing'
                        \/ ~last'.ret /\ vlc_state' = "Paused" /\ ~is_playing'
                ELSE vlc_state \in {"Playing", "Paused"}
                     => /\ \A eng \in EngOutcomes :
                              PlayTrackAtIndex(Srv, i, eng)
                              = PlayTrackAtIndex(VlcStop(Srv), i, eng)
                        /\ \/ vlc_state' = "Stopped" /\ ~last'.ret
                           \/ /\ vlc_media' = current_playlist[i + 1].url
                              /\ vlc_state' \in {"Opening", "Playing"}
                              /\ last'.ret
          /\ (glast'.op = "play_at" /\ glast'.arg = i)
             => IF gvlc_state = "Paused" /\ current_idx = i
                THEN /\ gvlc_media' = gvlc_media
                     /\ current_idx' = i /\ self_is_playing'
                     /\ gvlc_state' \in {"Playing", "Paused"}
                     /\ history' = history /\ timers' = timers
                ELSE gvlc_state \in {"Playing", "Paused"}
                     => \/ gvlc_state' = "Stopped"
                        \/ /\ gvlc_media' = playlist[i + 1].url
                           /\ gvlc_state' \in {"Opening", "Playing"} ]_vars

\* C25: playAt on the paused current track was served by the resume branch,
\* the engine refusing: nothing was stopped or loaded, the engine is still
\* paused on the track
C25_Witness ==
    /\ last.op = "play_at" /\ ~last.ret
    /\ last.arg = current_track_index /\ last.pre_idx = last.arg
    /\ current_media_type = "playlist"
    /\ vlc_state = "Paused"
    /\ vlc_media = current_playlist[last.arg + 1].url

----------------------------------------------------------------------------
\* Properties of the desktop player's skip-on-error sequence (SpecSkip)

\* C26: when the engine's error event is handled, or the start of track i
\* fails, track i being current, the handler stops the engine, clears the
\* displayed track and cover and schedules play_next; play_next then attempts
\* track i + 1 when it exists and otherwise stops with the index at -1,
\* scheduling nothing; and the sequence ends: eventually no timer and no
\* engine event is pending and the engine neither opens nor plays a media,
\* whichever tracks fail.
C26_SkipOnError ==
    /\ [][ /\ (events # <<>> /\ Head(events) = "error" /\ events' = Tail(events))
              => /\ gvlc_state' = "Stopped" /\ current_track_info' = <<>>
                 /\ cover' = "default"
                 /\ timers' = timers + 1 /\ current_idx' = current_idx
           /\ \A i \in 0..(Len(playlist) - 1) :
                (/\ glast'.op = "play_at" /\ glast'.arg = i
                 /\ gvlc_state' \notin {"Opening", "Playing"})
                => /\ gvlc_state' = "Stopped" /\ current_track_info' = <<>>
                   /\ cover' = "default"
                   /\ timers' = timers + 1 /\ current_idx' = i
           /\ (glast'.op = "play_next" /\ playlist # <<>>)
              => LET n == IF current_idx = -1 THEN 0 ELSE current_idx + 1 IN
                 IF n < Len(playlist)
                 THEN /\ current_idx' = n
                      /\ \/ /\ gvlc_media' = playlist[n + 1].url
                            /\ gvlc_state' \in {"Opening", "Playing"}
                            /\ timers' = timers - 1
                         \/ /\ gvlc_state' = "Stopped" /\ current_track_info' = <<>>
                            /\ timers' = timers
                 ELSE /\ current_idx' = -1 /\ gvlc_state' = "Stopped"
                      /\ current_track_info' = <<>> /\ timers' = timers - 1 ]_vars
    /\ <>[](timers = 0 /\ events = <<>> /\ gvlc_state \notin {"Opening", "Playing"})

\* C26: every track of the playlist failed to start, the last play_next ran
\* past the last track and the sequence is over
C26_Witness ==
    /\ glast.op = "play_next"
    /\ Len(playlist) = MaxPL
    /\ glast.pre_idx = Len(playlist) - 1
    /\ history = <<>>
    /\ current_idx = -1 /\ gvlc_state = "Stopped"
    /\ timers = 0 /\ events = <<>>

----------------------------------------------------------------------------
\* Properties of the cover downloads (SpecFetch, SpecCover)

C28_NewerCoverKept ==
    current_track_info # <<>>
    => cover \in {"default", current_track_info[1].thumbnail_url}

\* C29: _set_cover asks the running cover worker of the slot to cancel before
\* it starts a new one: when a worker is created every older worker still
\* running has its cancellation flag set, and at any time at most one cover
\* worker is running with the flag not set.
C29_SingleFlight ==
    [][ /\ Len(covers') = Len(covers) + 1
           => /\ \A w \in 1..Len(covers) :
                    covers'[w].pc # "ended" => covers'[w].cancelled
              /\ cover_worker' = Len(covers')
        /\ Cardinality({ w \in 1..Len(covers') :
                           covers'[w].pc # "ended" /\ ~covers'[w].cancelled }) <= 1 ]_vars

\* C29: a second cover worker was started while the first was still
\* transferring, and the first has been asked to cancel
C29_Witness ==
    /\ glast.op = "play_at"
    /\ Len(covers) = 2
    /\ covers[1].pc = "transfer" /\ covers[1].cancelled
    /\ covers[2].pc = "start" /\ ~covers[2].cancelled
    /\ cover_worker = 2

\* C30: whenever a run of a CoverDownloadWorker ends in failure (it emits
\* cover_error: refused or failed request, error while the file is written,
\* cancellation seen during the transfer or after it), no file is left at its
\* cache path.
C30_NoFileAfterFailure ==
    [][ \A w \in 1..Len(covers) :
          mailbox' = Append(mailbox, [w |-> w, sig |-> "cover_error", tracks |-> <<>>,
                                      path |-> covers[w].url])
          => cache'[covers[w].url] = "absent" ]_vars

----------------------------------------------------------------------------
\* Properties of the threads (Spec)

\* C31: the engine and the session variables (mode, index, playing flag) are
\* written on the control thread only: a step taken on the engine's event
\* thread (the engine's own progress, the end-of-media callback) leaves the
\* session variables and the engine's media as they were and neither stops
\* nor starts the engine.
C31_ControlThreadOnly ==
    [][ /\ (program = "server" /\ last'.op \in {"engine", "end_reached"})
           => /\ current_media_type' = current_media_type
              /\ current_track_index' = current_track_index
              /\ is_playing' = is_playing
              /\ current_radio_info' = current_radio_info
              /\ vlc_media' = vlc_media
              /\ vlc_state' \in {"Playing", "Ended", "Error"}
        /\ (program = "desktop" /\ glast'.op = "engine")
           => /\ current_idx' = current_idx
              /\ self_is_playing' = self_is_playing
              /\ current_track_info' = current_track_info
              /\ gvlc_media' = gvlc_media
              /\ gvlc_state' \in {"Playing", "Ended", "Error"} ]_vars

----------------------------------------------------------------------------
\* Properties of the playlist under search, download and removal

\* C32 as stated: when a search delivers a non-empty result, every track of it
\* with a locator is appended to the playlist in result order; if the engine
\* is not playing then, playback starts at the first appended track, and if
\* it is playing the current index and track are unchanged.
C32_ResultsAppended_AsStated ==
    [][ (/\ mailbox # <<>> /\ mailbox' = Tail(mailbox)
         /\ Head(mailbox).sig = "results" /\ Head(mailbox).tracks # <<>>
         /\ workers[Head(mailbox).w].kind = "search")
        => LET added == SelectSeq(Head(mailbox).tracks,
                                  LAMBDA t : Truthy(t.url) \/ Truthy(t.webpage_url))
               n == Len(playlist)
           IN /\ playlist' = playlist \o added
              /\ IF gvlc_state # "Playing" /\ added # <<>>
                 THEN /\ current_idx' = n
                      /\ gvlc_media' = added[1].url
                      /\ gvlc_state' \in {"Opening", "Playing"}
                 ELSE /\ current_idx' = current_idx
                      /\ current_track_info' = current_track_info ]_vars

\* C32: when a search delivers a non-empty result, every track of it with a
\* locator is appended to the playlist in result order; if the engine is not
\* playing then, the first appended track becomes current and its playback is
\* attempted (it plays, or the engine refuses it and the error handler stops
\* and schedules play_next); if the engine is playing, the current index, the
\* current track and the engine are unchanged.
C32_ResultsAppended ==
    [][ (/\ mailbox # <<>> /\ mailbox' = Tail(mailbox)
         /\ Head(mailbox).sig = "results" /\ Head(mailbox).tracks # <<>>
         /\ workers[Head(mailbox).w].kind = "search")
        => LET added == SelectSeq(Head(mailbox).tracks,
                                  LAMBDA t : Truthy(t.url) \/ Truthy(t.webpage_url))
               n == Len(playlist)
           IN /\ playlist' = playlist \o added
              /\ IF gvlc_state # "Playing" /\ added # <<>>
                 THEN /\ current_idx' = n
                      /\ \/ /\ gvlc_media' = added[1].url
                            /\ gvlc_state' \in {"Opening", "Playing"}
                            /\ current_track_info' = <<added[1]>>
                         \/ /\ gvlc_state' = "Stopped"
                            /\ timers' = timers + 1
                            /\ current_track_info' = <<>>
                 ELSE /\ current_idx' = current_idx
                      /\ current_track_info' = current_track_info
                      /\ gvlc_media' = gvlc_media
                      /\ gvlc_state' = gvlc_state ]_vars

\* C32: a search result was appended after the loaded track, which the engine
\* had refused, and the appended track was started
C32_Witness ==
    /\ glast.op = "results"
    /\ workers[glast.arg].kind = "search"
    /\ Len(playlist) = 2
    /\ glast.pre_idx = 0 /\ current_idx = 1
    /\ gvlc_state = "Playing" /\ gvlc_media = playlist[2].url
    /\ current_track_info = <<playlist[2]>>

\* C33: after _remove_track_from_playlist(k) for a valid k the playlist is the
\* old one without row k and current_idx is -1 or a valid index of it; when k
\* is not the current index the same Track stays current: current_idx goes
\* down by one if k < current_idx and is unchanged if k > current_idx.
C33_RemovalKeepsIndex ==
    [][ (glast'.op = "remove" /\ 0 <= glast'.arg /\ glast'.arg < Len(playlist))
        => LET k == glast'.arg IN
           /\ Len(playlist') = Len(playlist) - 1
           /\ \A j \in 1..Len(playlist') :
                 playlist'[j] = playlist[IF j <= k THEN j ELSE j + 1]
           /\ current_idx' = -1 \/ (0 <= current_idx' /\ current_idx' < Len(playlist'))
           /\ k < current_idx
              => /\ current_idx' = current_idx - 1
                 /\ playlist'[current_idx' + 1] = playlist[current_idx + 1]
                 /\ current_track_info' = current_track_info
           /\ k > current_idx
              => /\ current_idx' = current_idx
                 /\ current_idx >= 0
                    => playlist'[current_idx' + 1] = playlist[current_idx + 1]
                 /\ current_track_info' = current_track_info ]_vars

\* C33: the row before the playing track was removed, the track still plays
\* and current_idx followed it
C33_Witness ==
    /\ glast.op = "remove"
    /\ 0 <= glast.arg /\ glast.arg < glast.pre_idx
    /\ current_idx = glast.pre_idx - 1
    /\ gvlc_state = "Playing"
    /\ gvlc_media = playlist[current_idx + 1].url

\* C34: load_json with the Track normalizer skips every element that is
\* normalized to the invalid Track (an element that is neither a string, nor
\* a list of at least 5 items, nor a mapping): the list it returns is the
\* normalization of the other elements, in order.
C34_MalformedSkipped ==
    [][ \A raw_data \in JsonFiles :
          LoadPlaylistFile(raw_data)
          => LET kept == SelectSeq(raw_data, LAMBDA d : FromDict(d) # InvalidTrack)
             IN /\ playlist' = [k \in 1..Len(kept) |-> FromDict(kept[k])]
                /\ \A k \in 1..Len(playlist') : playlist'[k] # InvalidTrack ]_vars

----------------------------------------------------------------------------
\* Properties of the duration probes (SpecImport, SpecProbe)

----------------------------------------------------------------------------
\* Properties of the search flag and of refused requests (SpecSearch)

\* C36: is_searching is true whenever a search or download worker is
\* running: neither a finished handler nor a refused request clears it while
\* a worker still runs.
C36_FlagWhileRunning == (\E w \in 1..Len(workers) : IsRunning(w)) => is_searching

\* C37: a search or download request refused because one is active leaves
\* the workers as they are: no cancel flag is set, so the running worker
\* still emits the results it finds.
C37_RefusalLeavesWorker ==
    [][ (/\ glast'.op \in {"search_song", "download"}
         /\ is_searching
         /\ Len(workers') = Len(workers))
        => /\ workers' = workers
           /\ \A w \in 1..Len(workers) :
                 IsRunning(w) /\ ~workers[w].cancelled => ~workers'[w].cancelled ]_vars

\* C38: when the result of a context-menu download is handled, the only
\* track that changes is the one the download was started for (the track
\* whose page the worker was given), wherever removals have moved it, and if
\* it is still in the playlist it gets the downloaded file as its local
\* locator.
C38_DownloadHitsItsTrack ==
    [][ (/\ mailbox # <<>> /\ mailbox' = Tail(mailbox)
         /\ Head(mailbox).sig = "results"
         /\ workers[Head(mailbox).w].kind = "context"
         /\ Len(Head(mailbox).tracks) = 1
         /\ Head(mailbox).tracks[1].is_local)
        => LET wk == workers[Head(mailbox).w]
               file == Head(mailbox).tracks[1].url
           IN /\ Len(playlist') = Len(playlist)
              /\ \A i \in 1..Len(playlist) :
                    IF playlist[i].webpage_url = wk.query
                    THEN playlist'[i].url = file /\ playlist'[i].is_local
                    ELSE playlist'[i] = playlist[i] ]_vars

----------------------------------------------------------------------------
\* Properties of the cover cache under successive fetches (SpecFetch)

\* C39: when a cancelled cover worker leaves run() and cleans up, the cache
\* file of its locator is left as it is if a newer worker for the same
\* locator has opened it for writing or has written it; so the newer worker,
\* when it completes, finds its file at the cache path.
C39_CleanupSparesNewerFile ==
    [][ \A w \in 1..Len(covers) :
          (/\ covers[w].cancelled
           /\ covers[w].pc \in {"transfer", "written"}
           /\ covers'[w].pc = "return"
           /\ \E n \in (w + 1)..Len(covers) :
                 /\ covers[n].url = covers[w].url
                 /\ covers[n].pc \in {"transfer", "written"})
          => cache'[covers[w].url] = cache[covers[w].url] ]_vars

=============================================================================
